---- MODULE Spec2Model ----
(***************************************************************************)
(* Model of the stralgo string-metric library (packages runewise and       *)
(* bytewise).  Every metric is a pure function of its two input sequences; *)
(* the state machine draws a pair of inputs, applies one metric to it and  *)
(* records the outcome of the call.                                        *)
(*                                                                         *)
(* Go slices and strings are 0-indexed; a TLA+ sequence s of the model     *)
(* holds Go's s[k] at s[k+1].  DP rows are functions over 0..rowLen-1 so   *)
(* that they keep Go's indices.                                            *)
(***************************************************************************)
EXTENDS Integers, Sequences, FiniteSets, TLC

VARIABLES a, b, op, res

vars == <<a, b, op, res>>

\* Longest input sequence drawn.
MaxLen == 4

\* Units are 0..MaxUnit; 0 is the zero value of rune and byte.
MaxUnit == 1

Units == 0..MaxUnit

Inputs == UNION {[1..n -> Units] : n \in 0..MaxLen}

\* Outcome of a call: a normal return, or a run-time panic (index out of range).
Ok(v) == [status |-> "ok", val |-> v]

Panic == [status |-> "panic", val |-> 0]

NoResult == [status |-> "none", val |-> 0]

\* Go's s[k]: the read is legal iff 0 <= k < len(s).
InRange(s, k) == k >= 0 /\ k < Len(s)

At(s, k) == s[k + 1]

min(x, y, z) ==
    LET m == IF y < x THEN y ELSE x
    IN IF z < m THEN z ELSE m

(***************************************************************************)
(* runewise.LevenshteinDistance                                            *)
(***************************************************************************)
\* The cost with the comparison inverted.
runewiseLevCostInverted(s, t, i, j) == IF At(s, i) # At(t, j) THEN 0 ELSE 1

\* The substitution cost of DP cell (i, j).
runewiseLevCost(s, t, i, j) == IF At(s, i) = At(t, j) THEN 0 ELSE 1

RECURSIVE runewiseLevInner(_, _, _, _, _, _)
runewiseLevInner(s, t, i, j, prevRow, currRow) ==
    IF j >= Len(t) THEN currRow
    ELSE LET cost == runewiseLevCost(s, t, i, j)
             entry == min(currRow[j] + 1, prevRow[j + 1] + 1, prevRow[j] + cost)
         IN runewiseLevInner(s, t, i, j + 1, prevRow,
                             [currRow EXCEPT ![j + 1] = entry])

RECURSIVE runewiseLevOuter(_, _, _, _, _)
runewiseLevOuter(s, t, i, prevRow, currRow) ==
    IF i >= Len(s) THEN prevRow[Len(t)]
    ELSE LET row == runewiseLevInner(s, t, i, 0, prevRow,
                                     [currRow EXCEPT ![0] = i + 1])
         IN runewiseLevOuter(s, t, i + 1, row, prevRow)

RunewiseLevenshteinDistance(s, t) ==
    IF Len(s) = 0 THEN Ok(Len(t))
    ELSE IF Len(t) = 0 THEN Ok(Len(s))
    ELSE Ok(runewiseLevOuter(s, t, 0,
                             [h \in 0..Len(t) |-> h],
                             [h \in 0..Len(t) |-> 0]))

(***************************************************************************)
(* bytewise.LevenshteinDistance                                            *)
(* The cost of cell (i, j) is read from a[i] and b[i].  The inner loop     *)
(* result is either the new row or the panic of an out-of-range read.      *)
(***************************************************************************)
\* The substitution cost of DP cell (i, j): the code compares a[i] with b[i].
bytewiseLevCost(s, t, i, j) == IF At(s, i) = At(t, i) THEN 0 ELSE 1

RECURSIVE bytewiseLevInner(_, _, _, _, _, _)
bytewiseLevInner(s, t, i, j, prevRow, currRow) ==
    IF j >= Len(t) THEN [panic |-> FALSE, row |-> currRow]
    ELSE IF ~(InRange(s, i) /\ InRange(t, i)) THEN [panic |-> TRUE, row |-> currRow]
    ELSE LET cost == bytewiseLevCost(s, t, i, j)
             entry == min(currRow[j] + 1, prevRow[j + 1] + 1, prevRow[j] + cost)
         IN bytewiseLevInner(s, t, i, j + 1, prevRow,
                             [currRow EXCEPT ![j + 1] = entry])

RECURSIVE bytewiseLevOuter(_, _, _, _, _)
bytewiseLevOuter(s, t, i, prevRow, currRow) ==
    IF i >= Len(s) THEN Ok(prevRow[Len(t)])
    ELSE LET r == bytewiseLevInner(s, t, i, 0, prevRow,
                                   [currRow EXCEPT ![0] = i + 1])
         IN IF r.panic THEN Panic
            ELSE bytewiseLevOuter(s, t, i + 1, r.row, prevRow)

BytewiseLevenshteinDistance(s, t) ==
    IF Len(s) = 0 THEN Ok(Len(t))
    ELSE IF Len(t) = 0 THEN Ok(Len(s))
    ELSE IF Len(s) = Len(t) /\ s = t THEN Ok(0)
    ELSE bytewiseLevOuter(s, t, 0,
                          [h \in 0..Len(t) |-> h],
                          [h \in 0..Len(t) |-> 0])

(***************************************************************************)
(* runewise.DamerauLevenshteinDistance                                     *)
(* st is the state of the loops: the three rows, prevA, prevB, the panic   *)
(* flag, and three histories: reads, the set of <<i, j>> at which          *)
(* tranRow[j-2] was read; writes, the set of <<i, j>> at which currRow[j]  *)
(* was assigned; snaps, one record per outer iteration with its i, start,  *)
(* end and the prevRow and tranRow it began with.                          *)
(***************************************************************************)
RECURSIVE runewiseDLInner(_, _, _, _, _, _)
runewiseDLInner(s, t, i, j, end, st) ==
    IF j > end \/ st.panic THEN st
    ELSE IF ~(InRange(s, j - 1) /\ InRange(t, i - 1)) THEN [st EXCEPT !.panic = TRUE]
    ELSE LET currA == At(s, j - 1)
             currB == At(t, i - 1)
             cost == IF currA = currB THEN 0 ELSE 1
             entry == min(st.currRow[j - 1] + 1,
                          st.prevRow[j] + 1,
                          st.prevRow[j - 1] + cost)
             swapped == currA = st.prevB /\ currB = st.prevA
         IN IF swapped /\ (j - 2) \notin DOMAIN st.tranRow
            THEN [st EXCEPT !.panic = TRUE,
                            !.reads = @ \cup {<<i, j>>}]
            ELSE LET trans == st.tranRow[j - 2] + cost
                     final == IF swapped /\ trans < entry THEN trans ELSE entry
                 IN runewiseDLInner(s, t, i, j + 1, end,
                        [st EXCEPT !.currRow = [@ EXCEPT ![j] = final],
                                   !.prevA = currA,
                                   !.writes = @ \cup {<<i, j>>},
                                   !.reads = IF swapped THEN @ \cup {<<i, j>>} ELSE @])

\* The outer loop with prevRow and currRow exchanged and tranRow left alone.
RECURSIVE runewiseDLOuterTwoRows(_, _, _, _)
runewiseDLOuterTwoRows(s, t, i, st) ==
    IF st.panic
    THEN [status |-> "panic", val |-> 0, reads |-> st.reads,
          writes |-> st.writes, snaps |-> st.snaps]
    ELSE IF i > Len(t)
    THEN [status |-> "ok", val |-> st.prevRow[Len(s)], reads |-> st.reads,
          writes |-> st.writes, snaps |-> st.snaps]
    ELSE LET start == IF i - Len(t) - 1 < 1 THEN 1 ELSE i - Len(t) - 1
             end == IF i + Len(t) + 1 > Len(s) THEN Len(s) ELSE i + Len(t) + 1
             st0 == [st EXCEPT !.currRow = [@ EXCEPT ![0] = i], !.prevA = 0,
                               !.writes = @ \cup {<<i, 0>>},
                               !.snaps = Append(@, [i |-> i, start |-> start,
                                                    end |-> end,
                                                    prevRow |-> st.prevRow,
                                                    tranRow |-> st.tranRow])]
             st1 == runewiseDLInner(s, t, i, start, end, st0)
         IN runewiseDLOuterTwoRows(s, t, i + 1,
                [st1 EXCEPT !.prevB = IF st1.panic THEN @ ELSE At(t, i - 1),
                            !.prevRow = st1.currRow,
                            !.currRow = st1.prevRow])

RECURSIVE runewiseDLOuter(_, _, _, _)
runewiseDLOuter(s, t, i, st) ==
    IF st.panic
    THEN [status |-> "panic", val |-> 0, reads |-> st.reads,
          writes |-> st.writes, snaps |-> st.snaps]
    ELSE IF i > Len(t)
    THEN [status |-> "ok", val |-> st.prevRow[Len(s)], reads |-> st.reads,
          writes |-> st.writes, snaps |-> st.snaps]
    ELSE LET start == IF i - Len(t) - 1 < 1 THEN 1 ELSE i - Len(t) - 1
             end == IF i + Len(t) + 1 > Len(s) THEN Len(s) ELSE i + Len(t) + 1
             st0 == [st EXCEPT !.currRow = [@ EXCEPT ![0] = i], !.prevA = 0,
                               !.writes = @ \cup {<<i, 0>>},
                               !.snaps = Append(@, [i |-> i, start |-> start,
                                                    end |-> end,
                                                    prevRow |-> st.prevRow,
                                                    tranRow |-> st.tranRow])]
             st1 == runewiseDLInner(s, t, i, start, end, st0)
         IN runewiseDLOuter(s, t, i + 1,
                [st1 EXCEPT !.prevB = IF st1.panic THEN @ ELSE At(t, i - 1),
                            !.tranRow = st1.prevRow,
                            !.prevRow = st1.currRow,
                            !.currRow = st1.tranRow])

RunewiseDamerauLevenshteinDistance(x, y) ==
    IF Len(x) = 0
    THEN [status |-> "ok", val |-> Len(y), reads |-> {},
          writes |-> {}, snaps |-> << >>]
    ELSE IF Len(y) = 0
    THEN [status |-> "ok", val |-> Len(x), reads |-> {},
          writes |-> {}, snaps |-> << >>]
    ELSE LET s == IF Len(x) > Len(y) THEN y ELSE x
             t == IF Len(x) > Len(y) THEN x ELSE y
         IN runewiseDLOuter(s, t, 1,
                [tranRow |-> [h \in 0..Len(s) |-> 0],
                 prevRow |-> [h \in 0..Len(s) |-> h],
                 currRow |-> [h \in 0..Len(s) |-> 0],
                 prevA |-> 0, prevB |-> 0,
                 panic |-> FALSE, reads |-> {},
                 writes |-> {}, snaps |-> << >>])

(***************************************************************************)
(* bytewise.DamerauLevenshteinDistance                                     *)
(* st is the state of the loops: the three rows, prevA, prevB, the panic   *)
(* flag, and three histories: reads, the set of <<i, j>> at which          *)
(* tranRow[j-2] was read; writes, the set of <<i, j>> at which currRow[j]  *)
(* was assigned; snaps, one record per outer iteration with its i, start,  *)
(* end and the prevRow and tranRow it began with.                          *)
(***************************************************************************)
RECURSIVE bytewiseDLInner(_, _, _, _, _, _)
bytewiseDLInner(s, t, i, j, end, st) ==
    IF j > end \/ st.panic THEN st
    ELSE IF ~(InRange(s, j - 1) /\ InRange(t, i - 1)) THEN [st EXCEPT !.panic = TRUE]
    ELSE LET currA == At(s, j - 1)
             currB == At(t, i - 1)
             cost == IF currA = currB THEN 0 ELSE 1
             entry == min(st.currRow[j - 1] + 1,
                          st.prevRow[j] + 1,
                          st.prevRow[j - 1] + cost)
             swapped == currA = st.prevB /\ currB = st.prevA
         IN IF swapped /\ (j - 2) \notin DOMAIN st.tranRow
            THEN [st EXCEPT !.panic = TRUE,
                            !.reads = @ \cup {<<i, j>>}]
            ELSE LET trans == st.tranRow[j - 2] + cost
                     final == IF swapped /\ trans < entry THEN trans ELSE entry
                 IN bytewiseDLInner(s, t, i, j + 1, end,
                        [st EXCEPT !.currRow = [@ EXCEPT ![j] = final],
                                   !.prevA = currA,
                                   !.writes = @ \cup {<<i, j>>},
                                   !.reads = IF swapped THEN @ \cup {<<i, j>>} ELSE @])

RECURSIVE bytewiseDLOuter(_, _, _, _)
bytewiseDLOuter(s, t, i, st) ==
    IF st.panic
    THEN [status |-> "panic", val |-> 0, reads |-> st.reads,
          writes |-> st.writes, snaps |-> st.snaps]
    ELSE IF i > Len(t)
    THEN [status |-> "ok", val |-> st.prevRow[Len(s)], reads |-> st.reads,
          writes |-> st.writes, snaps |-> st.snaps]
    ELSE LET start == IF i - Len(t) - 1 < 1 THEN 1 ELSE i - Len(t) - 1
             end == IF i + Len(t) + 1 > Len(s) THEN Len(s) ELSE i + Len(t) + 1
             st0 == [st EXCEPT !.currRow = [@ EXCEPT ![0] = i], !.prevA = 0,
                               !.writes = @ \cup {<<i, 0>>},
                               !.snaps = Append(@, [i |-> i, start |-> start,
                                                    end |-> end,
                                                    prevRow |-> st.prevRow,
                                                    tranRow |-> st.tranRow])]
             st1 == bytewiseDLInner(s, t, i, start, end, st0)
         IN bytewiseDLOuter(s, t, i + 1,
                [st1 EXCEPT !.prevB = IF st1.panic THEN @ ELSE At(t, i - 1),
                            !.tranRow = st1.prevRow,
                            !.prevRow = st1.currRow,
                            !.currRow = st1.tranRow])

BytewiseDamerauLevenshteinDistance(x, y) ==
    IF Len(x) = 0
    THEN [status |-> "ok", val |-> Len(y), reads |-> {},
          writes |-> {}, snaps |-> << >>]
    ELSE IF Len(y) = 0
    THEN [status |-> "ok", val |-> Len(x), reads |-> {},
          writes |-> {}, snaps |-> << >>]
    ELSE LET s == IF Len(x) > Len(y) THEN y ELSE x
             t == IF Len(x) > Len(y) THEN x ELSE y
         IN bytewiseDLOuter(s, t, 1,
                [tranRow |-> [h \in 0..Len(s) |-> 0],
                 prevRow |-> [h \in 0..Len(s) |-> h],
                 currRow |-> [h \in 0..Len(s) |-> 0],
                 prevA |-> 0, prevB |-> 0,
                 panic |-> FALSE, reads |-> {},
                 writes |-> {}, snaps |-> << >>])

(***************************************************************************)
(* runewise.jaroMatchesAndHalfTranspositions and runewise.JaroSimilarity   *)
(* st is the state of the matching loops: aCommon, numAMatched, the key    *)
(* set of the map bMatchedIndices, and two history sets: hits, the         *)
(* <<i, j>> at which a[i] = b[j] was found inside the window, and          *)
(* recorded, the <<i, j>> at which j was added to bMatchedIndices.         *)
(***************************************************************************)
RECURSIVE jaroInner(_, _, _, _, _, _, _)
jaroInner(s, t, i, j, to, aMatched, st) ==
    IF j > to \/ st.panic THEN st
    ELSE IF ~(InRange(s, i) /\ InRange(t, j)) THEN [st EXCEPT !.panic = TRUE]
    ELSE IF At(s, i) # At(t, j) THEN jaroInner(s, t, i, j + 1, to, aMatched, st)
    ELSE LET st1 == IF ~aMatched
                    THEN [st EXCEPT !.aCommon = [@ EXCEPT ![st.numAMatched] = At(s, i)],
                                    !.numAMatched = @ + 1]
                    ELSE st
             st2 == IF j \notin st1.bMatchedIndices
                    THEN [st1 EXCEPT !.bMatchedIndices = @ \cup {j},
                                     !.recorded = @ \cup {<<i, j>>}]
                    ELSE st1
         IN jaroInner(s, t, i, j + 1, to, TRUE,
                      [st2 EXCEPT !.hits = @ \cup {<<i, j>>}])

RECURSIVE jaroOuter(_, _, _, _, _)
jaroOuter(s, t, i, matchMax, st) ==
    IF i >= Len(s) \/ st.panic THEN st
    ELSE LET from == IF i - matchMax < 0 THEN 0 ELSE i - matchMax
             to == IF i + matchMax >= Len(t) THEN Len(t) - 1 ELSE i + matchMax
         IN jaroOuter(s, t, i + 1, matchMax,
                      jaroInner(s, t, i, from, to, FALSE, st))

\* The k-th (from 0) smallest element of the set S of integers.
KthSmallest(S, k) == CHOOSE x \in S : Cardinality({y \in S : y < x}) = k

\* bIndices with the keys in descending order, as if sort.Ints were missing
\* and the map happened to be enumerated from its largest key.
sortedBIndicesDescending(S, n) ==
    LET c == Cardinality(S)
    IN [k \in 0..(n - 1) |-> IF k < c THEN KthSmallest(S, c - 1 - k) ELSE 0]

\* bIndices after the copy loop and sort.Ints: the n - |S| slots the copy
\* left at zero and the keys S of the map, in ascending order.
sortedBIndices(S, n) ==
    LET pad == n - Cardinality(S)
    IN [k \in 0..(n - 1) |-> IF k < pad THEN 0 ELSE KthSmallest(S, k - pad)]

\* The transposition count with the last rank left out (k < numAMatched - 1).
jaroTransCountSkipLast(t, aCommon, bIndices, k, n) ==
    Cardinality({r \in k..(n - 2) : aCommon[r] # At(t, bIndices[r])})

RECURSIVE jaroTransCount(_, _, _, _, _)
jaroTransCount(t, aCommon, bIndices, k, n) ==
    IF k >= n THEN 0
    ELSE (IF aCommon[k] # At(t, bIndices[k]) THEN 1 ELSE 0)
         + jaroTransCount(t, aCommon, bIndices, k + 1, n)

jaroMatchesAndHalfTranspositions(x, y) ==
    IF Len(x) = 0 \/ Len(y) = 0
    THEN [panic |-> FALSE, matches |-> 0, trans |-> 0,
          bMatchedIndices |-> {}, hits |-> {}, recorded |-> {}]
    ELSE LET s == IF Len(x) < Len(y) THEN y ELSE x
             t == IF Len(x) < Len(y) THEN x ELSE y
             matchMax == IF (Len(s) \div 2) - 1 < 0 THEN 0 ELSE (Len(s) \div 2) - 1
             st == jaroOuter(s, t, 0, matchMax,
                       [panic |-> FALSE,
                        aCommon |-> [k \in 0..(Len(s) - 1) |-> 0],
                        numAMatched |-> 0,
                        bMatchedIndices |-> {}, hits |-> {}, recorded |-> {}])
             n == st.numAMatched
         IN IF st.panic \/ Cardinality(st.bMatchedIndices) > n
            THEN [panic |-> TRUE, matches |-> n, trans |-> 0,
                  bMatchedIndices |-> st.bMatchedIndices,
                  hits |-> st.hits, recorded |-> st.recorded]
            ELSE [panic |-> FALSE, matches |-> n,
                  trans |-> jaroTransCount(t, st.aCommon,
                                sortedBIndices(st.bMatchedIndices, n), 0, n),
                  bMatchedIndices |-> st.bMatchedIndices,
                  hits |-> st.hits, recorded |-> st.recorded]

\* JaroSimilarity without the matches == 0 return: 0/0, kept as num 0, den 0.
JaroSimilarityUnguarded(x, y) ==
    LET r == jaroMatchesAndHalfTranspositions(x, y)
        m == r.matches
        base == [status |-> "ok", num |-> 0, den |-> 1, matches |-> m,
                 trans |-> r.trans, bMatchedIndices |-> r.bMatchedIndices,
                 hits |-> r.hits, recorded |-> r.recorded]
    IN IF r.panic THEN [base EXCEPT !.status = "panic"]
       ELSE [base EXCEPT
                !.num = m * Len(y) * m + m * Len(x) * m
                        + (m - (r.trans \div 2)) * Len(x) * Len(y),
                !.den = 3 * Len(x) * Len(y) * m]

\* The float64 result is kept as the exact fraction num / den:
\* (1/3) * (m/len(a) + m/len(b) + (m - trans/2)/m), trans/2 an integer division.
JaroSimilarity(x, y) ==
    LET r == jaroMatchesAndHalfTranspositions(x, y)
        m == r.matches
        base == [status |-> "ok", num |-> 0, den |-> 1, matches |-> m,
                 trans |-> r.trans, bMatchedIndices |-> r.bMatchedIndices,
                 hits |-> r.hits, recorded |-> r.recorded]
    IN IF r.panic THEN [base EXCEPT !.status = "panic"]
       ELSE IF m = 0 THEN base
       ELSE [base EXCEPT
                !.num = m * Len(y) * m + m * Len(x) * m
                        + (m - (r.trans \div 2)) * Len(x) * Len(y),
                !.den = 3 * Len(x) * Len(y) * m]

(***************************************************************************)
(* float64 arithmetic on non-negative values, for the one place where the  *)
(* rounding of the Jaro value decides a branch.  A natural number is the   *)
(* sequence of its digits to the base 2^15 = 32768, lowest first; a float  *)
(* is [n, e] with the value n * 2^e, n of at most 53 binary digits.  Every *)
(* operation rounds its exact result to nearest, ties to even.             *)
(***************************************************************************)
RECURSIVE bnTrim(_)
bnTrim(n) ==
    IF Len(n) > 0 /\ n[Len(n)] = 0 THEN bnTrim(SubSeq(n, 1, Len(n) - 1)) ELSE n

RECURSIVE bnFromInt(_)
bnFromInt(v) == IF v = 0 THEN << >> ELSE <<v % 32768>> \o bnFromInt(v \div 32768)

bnDigit(n, k) == IF k <= Len(n) THEN n[k] ELSE 0

\* acc holds the digits of the sum below position Len(acc) + 1.
RECURSIVE bnAddFrom(_, _, _, _)
bnAddFrom(x, y, carry, acc) ==
    LET k == Len(acc) + 1
    IN IF k > Len(x) /\ k > Len(y)
       THEN IF carry > 0 THEN Append(acc, carry) ELSE acc
       ELSE LET sum == bnDigit(x, k) + bnDigit(y, k) + carry
            IN bnAddFrom(x, y, sum \div 32768, Append(acc, sum % 32768))

bnAdd(x, y) == bnAddFrom(x, y, 0, << >>)

\* x * d for one digit d; acc holds the digits below position Len(acc) + 1.
RECURSIVE bnMulDigitFrom(_, _, _, _)
bnMulDigitFrom(x, d, carry, acc) ==
    LET k == Len(acc) + 1
    IN IF k > Len(x)
       THEN IF carry > 0 THEN Append(acc, carry) ELSE acc
       ELSE LET prod == x[k] * d + carry
            IN bnMulDigitFrom(x, d, prod \div 32768, Append(acc, prod % 32768))

\* x * 32768^k.
bnShlDigits(x, k) == [i \in 1..k |-> 0] \o x

\* x * 2^k.
bnShl(x, k) == bnShlDigits(bnMulDigitFrom(x, 2 ^ (k % 15), 0, << >>), k \div 15)

\* x times the digits of y from position k up, at their places.
RECURSIVE bnMulFrom(_, _, _)
bnMulFrom(x, y, k) ==
    IF k > Len(y) THEN << >>
    ELSE bnAdd(bnShlDigits(bnMulDigitFrom(x, y[k], 0, << >>), k - 1),
               bnMulFrom(x, y, k + 1))

bnMul(x, y) == bnMulFrom(x, y, 1)

bnLess(x, y) ==
    LET p == bnTrim(x)
        q == bnTrim(y)
    IN IF Len(p) # Len(q) THEN Len(p) < Len(q)
       ELSE \E k \in 1..Len(p) :
               /\ p[k] < q[k]
               /\ \A h \in (k + 1)..Len(p) : p[h] = q[h]

\* The number of binary digits of n, n trimmed and not zero.
bnBitLen(n) ==
    15 * (Len(n) - 1)
      + (CHOOSE k \in 1..15 : 2 ^ (k - 1) <= n[Len(n)] /\ n[Len(n)] < 2 ^ k)

\* The binary digit of n at position pos, counted from 0.
bnBit(n, pos) == (bnDigit(n, (pos \div 15) + 1) \div (2 ^ (pos % 15))) % 2

\* Some binary digit of n below position pos is 1.
bnLowNonzero(n, pos) ==
    \/ \E i \in 1..(pos \div 15) : bnDigit(n, i) # 0
    \/ bnDigit(n, (pos \div 15) + 1) % (2 ^ (pos % 15)) # 0

\* n \div 2^k.
bnShr(n, k) ==
    LET q == k \div 15
        s == k % 15
    IN [i \in 1..(Len(n) - q) |->
          (n[i + q] \div (2 ^ s)) + (bnDigit(n, i + q + 1) % (2 ^ s)) * (2 ^ (15 - s))]

\* n * 2^e rounded to 53 binary digits.
flRound(n, e) ==
    LET t == bnTrim(n)
    IN IF t = << >> THEN [n |-> t, e |-> e]
       ELSE LET drop == bnBitLen(t) - 53
            IN IF drop <= 0 THEN [n |-> t, e |-> e]
               ELSE LET kept == bnTrim(bnShr(t, drop))
                        up == /\ bnBit(t, drop - 1) = 1
                              /\ (bnLowNonzero(t, drop - 1) \/ kept[1] % 2 = 1)
                    IN [n |-> IF up THEN bnAdd(kept, <<1>>) ELSE kept,
                        e |-> e + drop]

\* The first k digits of r / q after the point, for 0 <= r < q < 65536,
\* lowest first, below them one digit that is 1 iff a remainder is left.
\* acc holds the digits found so far.
RECURSIVE flFraction(_, _, _, _)
flFraction(r, q, k, acc) ==
    IF Len(acc) = k THEN <<IF r = 0 THEN 0 ELSE 1>> \o acc
    ELSE flFraction((32768 * r) % q, q, k, <<(32768 * r) \div q>> \o acc)

\* float64(p) / float64(q) for integers p >= 0, 0 < q < 65536, and the
\* float64 of the constant p / q: six digits after the point and the
\* remainder digit, that is 105 binary places.
flFromRatio(p, q) ==
    flRound(flFraction(p % q, q, 6, << >>) \o bnFromInt(p \div q), -105)

flAdd(x, y) ==
    LET e == IF x.e < y.e THEN x.e ELSE y.e
    IN flRound(bnAdd(bnShl(x.n, x.e - e), bnShl(y.n, y.e - e)), e)

flMul(x, y) == flRound(bnMul(x.n, y.n), x.e + y.e)

flLess(x, y) ==
    LET e == IF x.e < y.e THEN x.e ELSE y.e
    IN bnLess(bnShl(x.n, x.e - e), bnShl(y.n, y.e - e))

\* The float64 that JaroSimilarity returns for matches m > 0 and
\* transpositions / 2 = h on inputs of lengths la and lb:
\* (1.0 / 3.0) * (m/la + m/lb + (m - h)/m), summed from the left.
jaroFloat(m, la, lb, h) ==
    flMul(flFromRatio(1, 3),
          flAdd(flAdd(flFromRatio(m, la), flFromRatio(m, lb)),
                flFromRatio(m - h, m)))

\* j < boostThreshold on the float64 values.  Unequal exact values are far
\* enough apart for the rounded values to be ordered alike; equal exact
\* values are compared as the code rounds them.
jaroBelowThreshold(x, y, j, boostThreshold) ==
    \/ j.num * boostThreshold[2] < boostThreshold[1] * j.den
    \/ /\ j.num * boostThreshold[2] = boostThreshold[1] * j.den
       /\ j.matches > 0
       /\ flLess(jaroFloat(j.matches, Len(x), Len(y), j.trans \div 2),
                 flFromRatio(boostThreshold[1], boostThreshold[2]))

(***************************************************************************)
(* runewise.JaroWinklerSimilarity and JaroWinklerSimilarityParametric      *)
(* A float64 argument or constant is the exact fraction <<n, d>>, d > 0.   *)
(***************************************************************************)
WinklerBoostThreshold == <<7, 10>>

WinklerMaxPrefixLength == 4

WinklerPrefixScale == <<1, 10>>

RECURSIVE sharedPrefixLoop(_, _, _, _)
sharedPrefixLoop(s, t, i, minLen) ==
    IF i >= minLen THEN i
    ELSE IF At(s, i) # At(t, i) THEN i
    ELSE sharedPrefixLoop(s, t, i + 1, minLen)

clampedSharedPrefixLength(s, t, maxPrefixLength) ==
    sharedPrefixLoop(s, t, 0, min(Len(s), Len(t), maxPrefixLength))

\* j < boostThreshold, compared as float64 values, returns j; otherwise
\* j + float64(prefix) * prefixScale * (1.0 - j), as one fraction.
JaroWinklerSimilarityParametric(x, y, prefixScale, maxPrefixLength, boostThreshold) ==
    LET j == JaroSimilarity(x, y)
        args == [prefixScale |-> prefixScale,
                 maxPrefixLength |-> maxPrefixLength,
                 boostThreshold |-> boostThreshold]
    IN IF j.status = "panic"
       THEN [status |-> "panic", num |-> 0, den |-> 1, args |-> args]
       ELSE IF jaroBelowThreshold(x, y, j, boostThreshold)
       THEN [status |-> "ok", num |-> j.num, den |-> j.den, args |-> args]
       ELSE LET prefix == clampedSharedPrefixLength(x, y, maxPrefixLength)
            IN [status |-> "ok",
                num |-> j.num * prefixScale[2]
                        + prefix * prefixScale[1] * (j.den - j.num),
                den |-> j.den * prefixScale[2],
                args |-> args]

JaroWinklerSimilarity(x, y) ==
    JaroWinklerSimilarityParametric(x, y, WinklerPrefixScale,
                                    WinklerMaxPrefixLength, WinklerBoostThreshold)

(***************************************************************************)
(* The bigram metrics.  A bigram is the pair <<x, y>> of two adjacent    *)
(* units; a float64 ratio is the exact fraction num / den.  An error     *)
(* return carries the ratio 0.                                           *)
(***************************************************************************)
Err == [status |-> "error", num |-> 0, den |-> 1]

\* unicode.IsSpace: the White_Space code points.
IsSpace(r) ==
    r \in {9, 10, 11, 12, 13, 32, 133, 160, 5760, 8232, 8233, 8239, 8287, 12288}
          \cup (8192..8202)

\* The upper-case mappings of unicode.CaseRanges above ASCII, as
\* <<lo, hi, stride, delta>>: a rune r of lo..hi with (r - lo) a multiple
\* of stride has the upper case r + delta; any other rune is its own.
CaseRanges == {
    <<181, 181, 1, 743>>, <<224, 246, 1, -32>>, <<248, 254, 1, -32>>,
    <<255, 255, 1, 121>>, <<257, 303, 2, -1>>, <<305, 305, 1, -232>>,
    <<307, 311, 2, -1>>, <<314, 328, 2, -1>>, <<331, 375, 2, -1>>,
    <<378, 382, 2, -1>>, <<383, 383, 1, -300>>, <<384, 384, 1, 195>>,
    <<387, 389, 2, -1>>, <<392, 392, 1, -1>>, <<396, 396, 1, -1>>,
    <<402, 402, 1, -1>>, <<405, 405, 1, 97>>, <<409, 409, 1, -1>>,
    <<410, 410, 1, 163>>, <<414, 414, 1, 130>>, <<417, 421, 2, -1>>,
    <<424, 424, 1, -1>>, <<429, 429, 1, -1>>, <<432, 432, 1, -1>>,
    <<436, 438, 2, -1>>, <<441, 441, 1, -1>>, <<445, 445, 1, -1>>,
    <<447, 447, 1, 56>>, <<453, 453, 1, -1>>, <<454, 454, 1, -2>>,
    <<456, 456, 1, -1>>, <<457, 457, 1, -2>>, <<459, 459, 1, -1>>,
    <<460, 460, 1, -2>>, <<462, 476, 2, -1>>, <<477, 477, 1, -79>>,
    <<479, 495, 2, -1>>, <<498, 498, 1, -1>>, <<499, 499, 1, -2>>,
    <<501, 501, 1, -1>>, <<505, 543, 2, -1>>, <<547, 563, 2, -1>>,
    <<572, 572, 1, -1>>, <<575, 576, 1, 10815>>, <<578, 578, 1, -1>>,
    <<583, 591, 2, -1>>, <<592, 592, 1, 10783>>, <<593, 593, 1, 10780>>,
    <<594, 594, 1, 10782>>, <<595, 595, 1, -210>>, <<596, 596, 1, -206>>,
    <<598, 599, 1, -205>>, <<601, 601, 1, -202>>, <<603, 603, 1, -203>>,
    <<604, 604, 1, 42319>>, <<608, 608, 1, -205>>, <<609, 609, 1, 42315>>,
    <<611, 611, 1, -207>>, <<613, 613, 1, 42280>>, <<614, 614, 1, 42308>>,
    <<616, 616, 1, -209>>, <<617, 617, 1, -211>>, <<618, 618, 1, 42308>>,
    <<619, 619, 1, 10743>>, <<620, 620, 1, 42305>>, <<623, 623, 1, -211>>,
    <<625, 625, 1, 10749>>, <<626, 626, 1, -213>>, <<629, 629, 1, -214>>,
    <<637, 637, 1, 10727>>, <<640, 640, 1, -218>>, <<642, 642, 1, 42307>>,
    <<643, 643, 1, -218>>, <<647, 647, 1, 42282>>, <<648, 648, 1, -218>>,
    <<649, 649, 1, -69>>, <<650, 651, 1, -217>>, <<652, 652, 1, -71>>,
    <<658, 658, 1, -219>>, <<669, 669, 1, 42261>>, <<670, 670, 1, 42258>>,
    <<837, 837, 1, 84>>, <<881, 883, 2, -1>>, <<887, 887, 1, -1>>,
    <<891, 893, 1, 130>>, <<940, 940, 1, -38>>, <<941, 943, 1, -37>>,
    <<945, 961, 1, -32>>, <<962, 962, 1, -31>>, <<963, 971, 1, -32>>,
    <<972, 972, 1, -64>>, <<973, 974, 1, -63>>, <<976, 976, 1, -62>>,
    <<977, 977, 1, -57>>, <<981, 981, 1, -47>>, <<982, 982, 1, -54>>,
    <<983, 983, 1, -8>>, <<985, 1007, 2, -1>>, <<1008, 1008, 1, -86>>,
    <<1009, 1009, 1, -80>>, <<1010, 1010, 1, 7>>, <<1011, 1011, 1, -116>>,
    <<1013, 1013, 1, -96>>, <<1016, 1016, 1, -1>>, <<1019, 1019, 1, -1>>,
    <<1072, 1103, 1, -32>>, <<1104, 1119, 1, -80>>, <<1121, 1153, 2, -1>>,
    <<1163, 1215, 2, -1>>, <<1218, 1230, 2, -1>>, <<1231, 1231, 1, -15>>,
    <<1233, 1327, 2, -1>>, <<1377, 1414, 1, -48>>, <<4304, 4346, 1, 3008>>,
    <<4349, 4351, 1, 3008>>, <<5112, 5117, 1, -8>>, <<7296, 7296, 1, -6254>>,
    <<7297, 7297, 1, -6253>>, <<7298, 7298, 1, -6244>>,
    <<7299, 7300, 1, -6242>>, <<7301, 7301, 1, -6243>>,
    <<7302, 7302, 1, -6236>>, <<7303, 7303, 1, -6181>>,
    <<7304, 7304, 1, 35266>>, <<7545, 7545, 1, 35332>>,
    <<7549, 7549, 1, 3814>>, <<7566, 7566, 1, 35384>>, <<7681, 7829, 2, -1>>,
    <<7835, 7835, 1, -59>>, <<7841, 7935, 2, -1>>, <<7936, 7943, 1, 8>>,
    <<7952, 7957, 1, 8>>, <<7968, 7975, 1, 8>>, <<7984, 7991, 1, 8>>,
    <<8000, 8005, 1, 8>>, <<8017, 8023, 2, 8>>, <<8032, 8039, 1, 8>>,
    <<8048, 8049, 1, 74>>, <<8050, 8053, 1, 86>>, <<8054, 8055, 1, 100>>,
    <<8056, 8057, 1, 128>>, <<8058, 8059, 1, 112>>, <<8060, 8061, 1, 126>>,
    <<8064, 8071, 1, 8>>, <<8080, 8087, 1, 8>>, <<8096, 8103, 1, 8>>,
    <<8112, 8113, 1, 8>>, <<8115, 8115, 1, 9>>, <<8126, 8126, 1, -7205>>,
    <<8131, 8131, 1, 9>>, <<8144, 8145, 1, 8>>, <<8160, 8161, 1, 8>>,
    <<8165, 8165, 1, 7>>, <<8179, 8179, 1, 9>>, <<8526, 8526, 1, -28>>,
    <<8560, 8575, 1, -16>>, <<8580, 8580, 1, -1>>, <<9424, 9449, 1, -26>>,
    <<11312, 11359, 1, -48>>, <<11361, 11361, 1, -1>>,
    <<11365, 11365, 1, -10795>>, <<11366, 11366, 1, -10792>>,
    <<11368, 11372, 2, -1>>, <<11379, 11379, 1, -1>>, <<11382, 11382, 1, -1>>,
    <<11393, 11491, 2, -1>>, <<11500, 11502, 2, -1>>, <<11507, 11507, 1, -1>>,
    <<11520, 11557, 1, -7264>>, <<11559, 11559, 1, -7264>>,
    <<11565, 11565, 1, -7264>>, <<42561, 42605, 2, -1>>,
    <<42625, 42651, 2, -1>>, <<42787, 42799, 2, -1>>, <<42803, 42863, 2, -1>>,
    <<42874, 42876, 2, -1>>, <<42879, 42887, 2, -1>>, <<42892, 42892, 1, -1>>,
    <<42897, 42899, 2, -1>>, <<42900, 42900, 1, 48>>, <<42903, 42921, 2, -1>>,
    <<42933, 42947, 2, -1>>, <<42952, 42954, 2, -1>>, <<42961, 42961, 1, -1>>,
    <<42967, 42969, 2, -1>>, <<42998, 42998, 1, -1>>,
    <<43859, 43859, 1, -928>>, <<43888, 43967, 1, -38864>>,
    <<65345, 65370, 1, -32>>, <<66600, 66639, 1, -40>>,
    <<66776, 66811, 1, -40>>, <<66967, 67003, 2, -39>>,
    <<66968, 66976, 2, -39>>, <<66980, 66992, 2, -39>>,
    <<66996, 67000, 2, -39>>, <<67004, 67004, 1, -39>>,
    <<68800, 68850, 1, -64>>, <<71872, 71903, 1, -32>>,
    <<93792, 93823, 1, -32>>, <<125218, 125251, 1, -34>> }

\* unicode.ToUpper: 'a'..'z' are shifted to 'A'..'Z' and the rest of ASCII
\* is unchanged; above ASCII the rune is looked up in CaseRanges.
ToUpper(r) ==
    IF r <= 127
    THEN IF 97 <= r /\ r <= 122 THEN r - 32 ELSE r
    ELSE LET found == {e \in CaseRanges :
                         e[1] <= r /\ r <= e[2] /\ (r - e[1]) % e[3] = 0}
         IN IF found = {} THEN r ELSE r + (CHOOSE e \in found : TRUE)[4]

\* bytewise.asciiUpperOrSpace: <<byte, isSpace>>.
asciiUpperOrSpace(c) ==
    IF c <= 127
    THEN IF 97 <= c /\ c <= 122 THEN <<c - 32, FALSE>>
         ELSE IF c \in {9, 10, 11, 12, 13, 32, 133, 160} THEN <<c, TRUE>>
         ELSE <<c, FALSE>>
    ELSE <<c, FALSE>>

(***************************************************************************)
(* runewise.DiceCoefficient                                              *)
(***************************************************************************)
RECURSIVE runewiseDiceScanA(_, _, _, _)
runewiseDiceScanA(s, i, aSet, totalBigrams) ==
    IF i >= Len(s) - 1 THEN [aSet |-> aSet, totalBigrams |-> totalBigrams]
    ELSE LET bigram == <<At(s, i), At(s, i + 1)>>
         IN IF bigram \notin aSet
            THEN runewiseDiceScanA(s, i + 1, aSet \cup {bigram}, totalBigrams + 1)
            ELSE runewiseDiceScanA(s, i + 1, aSet, totalBigrams)

\* The scan of b counting every occurrence of a bigram, not only the first.
RECURSIVE runewiseDiceScanBCountsRepeats(_, _, _, _)
runewiseDiceScanBCountsRepeats(t, i, aSet, st) ==
    IF i >= Len(t) - 1 THEN st
    ELSE LET bigram == <<At(t, i), At(t, i + 1)>>
         IN runewiseDiceScanBCountsRepeats(t, i + 1, aSet,
                [bSet |-> st.bSet \cup {bigram},
                 totalBigrams |-> st.totalBigrams + 1,
                 sharedBigrams |-> IF bigram \in aSet
                                   THEN st.sharedBigrams + 1
                                   ELSE st.sharedBigrams])

RECURSIVE runewiseDiceScanB(_, _, _, _)
runewiseDiceScanB(t, i, aSet, st) ==
    IF i >= Len(t) - 1 THEN st
    ELSE LET bigram == <<At(t, i), At(t, i + 1)>>
         IN IF bigram \notin st.bSet
            THEN runewiseDiceScanB(t, i + 1, aSet,
                    [bSet |-> st.bSet \cup {bigram},
                     totalBigrams |-> st.totalBigrams + 1,
                     sharedBigrams |-> IF bigram \in aSet
                                       THEN st.sharedBigrams + 1
                                       ELSE st.sharedBigrams])
            ELSE runewiseDiceScanB(t, i + 1, aSet, st)

\* The two scans and the ratio 2 * sharedBigrams / totalBigrams.
runewiseDiceRatio(x, y) ==
    LET sa == runewiseDiceScanA(x, 0, {}, 0)
        sb == runewiseDiceScanB(y, 0, sa.aSet,
                  [bSet |-> {}, totalBigrams |-> sa.totalBigrams,
                   sharedBigrams |-> 0])
    IN [status |-> "ok", num |-> 2 * sb.sharedBigrams, den |-> sb.totalBigrams]

\* The length check with "or" in place of "and".
RunewiseDiceCoefficientEitherShort(x, y) ==
    IF Len(x) - 1 < 1 \/ Len(y) - 1 < 1 THEN Err
    ELSE runewiseDiceRatio(x, y)

RunewiseDiceCoefficient(x, y) ==
    IF Len(x) - 1 < 1 /\ Len(y) - 1 < 1 THEN Err
    ELSE runewiseDiceRatio(x, y)

(***************************************************************************)
(* bytewise.DiceCoefficient                                              *)
(***************************************************************************)
RECURSIVE bytewiseDiceScanA(_, _, _, _)
bytewiseDiceScanA(s, i, aSet, totalBigrams) ==
    IF i >= Len(s) - 1 THEN [aSet |-> aSet, totalBigrams |-> totalBigrams]
    ELSE LET bigram == <<At(s, i), At(s, i + 1)>>
         IN IF bigram \notin aSet
            THEN bytewiseDiceScanA(s, i + 1, aSet \cup {bigram}, totalBigrams + 1)
            ELSE bytewiseDiceScanA(s, i + 1, aSet, totalBigrams)

RECURSIVE bytewiseDiceScanB(_, _, _, _)
bytewiseDiceScanB(t, i, aSet, st) ==
    IF i >= Len(t) - 1 THEN st
    ELSE LET bigram == <<At(t, i), At(t, i + 1)>>
         IN IF bigram \notin st.bSet
            THEN bytewiseDiceScanB(t, i + 1, aSet,
                    [bSet |-> st.bSet \cup {bigram},
                     totalBigrams |-> st.totalBigrams + 1,
                     sharedBigrams |-> IF bigram \in aSet
                                       THEN st.sharedBigrams + 1
                                       ELSE st.sharedBigrams])
            ELSE bytewiseDiceScanB(t, i + 1, aSet, st)

\* The two scans and the ratio 2 * sharedBigrams / totalBigrams.
bytewiseDiceRatio(x, y) ==
    LET sa == bytewiseDiceScanA(x, 0, {}, 0)
        sb == bytewiseDiceScanB(y, 0, sa.aSet,
                  [bSet |-> {}, totalBigrams |-> sa.totalBigrams,
                   sharedBigrams |-> 0])
    IN [status |-> "ok", num |-> 2 * sb.sharedBigrams, den |-> sb.totalBigrams]

BytewiseDiceCoefficient(x, y) ==
    IF Len(x) - 1 < 1 /\ Len(y) - 1 < 1 THEN Err
    ELSE bytewiseDiceRatio(x, y)

(***************************************************************************)
(* runewise.WhiteSimilarity and upperWordLetterPairs                     *)
(***************************************************************************)
\* The loop that also advances by two past a whitespace first unit.
RECURSIVE runewiseWordPairsLoopSkipsAfterSpace(_, _, _)
runewiseWordPairsLoopSkipsAfterSpace(s, i, bigrams) ==
    IF i >= Len(s) - 1 THEN bigrams
    ELSE LET x == At(s, i)
             y == At(s, i + 1)
         IN IF IsSpace(y) THEN runewiseWordPairsLoopSkipsAfterSpace(s, i + 2, bigrams)
            ELSE IF IsSpace(x) THEN runewiseWordPairsLoopSkipsAfterSpace(s, i + 2, bigrams)
            ELSE runewiseWordPairsLoopSkipsAfterSpace(s, i + 1,
                     Append(bigrams, <<ToUpper(x), ToUpper(y)>>))

RECURSIVE runewiseWordPairsLoop(_, _, _)
runewiseWordPairsLoop(s, i, bigrams) ==
    IF i >= Len(s) - 1 THEN bigrams
    ELSE LET x == At(s, i)
             y == At(s, i + 1)
         IN IF IsSpace(y) THEN runewiseWordPairsLoop(s, i + 2, bigrams)
            ELSE IF IsSpace(x) THEN runewiseWordPairsLoop(s, i + 1, bigrams)
            ELSE runewiseWordPairsLoop(s, i + 1,
                     Append(bigrams, <<ToUpper(x), ToUpper(y)>>))

\* The bigram list without the whitespace filter: every adjacent pair.
upperLetterPairsUnfiltered(s) ==
    IF Len(s) - 1 < 1 THEN << >>
    ELSE [k \in 1..(Len(s) - 1) |-> <<ToUpper(s[k]), ToUpper(s[k + 1])>>]

upperWordLetterPairs(s) ==
    IF Len(s) - 1 < 1 THEN << >>
    ELSE runewiseWordPairsLoop(s, 0, << >>)

\* The scan of bPairs for the first slot equal to aBigram; 0 when there is
\* none.  Slots are numbered from 1.
RECURSIVE runewiseWhiteFind(_, _, _)
runewiseWhiteFind(aBigram, bPairs, j) ==
    IF j > Len(bPairs) THEN 0
    ELSE IF aBigram = bPairs[j] THEN j
    ELSE runewiseWhiteFind(aBigram, bPairs, j + 1)

\* st: bPairs with the consumed slots overwritten by the zero bigram, the
\* intersection count, and slots, the sequence of slots matched so far.
RECURSIVE runewiseWhiteMatch(_, _, _)
runewiseWhiteMatch(aPairs, k, st) ==
    IF k > Len(aPairs) THEN st
    ELSE LET j == runewiseWhiteFind(aPairs[k], st.bPairs, 1)
         IN IF j = 0 THEN runewiseWhiteMatch(aPairs, k + 1, st)
            ELSE runewiseWhiteMatch(aPairs, k + 1,
                    [bPairs |-> [st.bPairs EXCEPT ![j] = <<0, 0>>],
                     intersection |-> st.intersection + 1,
                     slots |-> Append(st.slots, j)])

RunewiseWhiteSimilarity(x, y) ==
    LET aPairs == upperWordLetterPairs(x)
        bPairs == upperWordLetterPairs(y)
        union == Len(aPairs) + Len(bPairs)
    IN IF union = 0
       THEN [status |-> "error", num |-> 0, den |-> 1,
             intersection |-> 0, slots |-> << >>]
       ELSE LET st == runewiseWhiteMatch(aPairs, 1,
                          [bPairs |-> bPairs, intersection |-> 0, slots |-> << >>])
            IN [status |-> "ok", num |-> 2 * st.intersection, den |-> union,
                intersection |-> st.intersection, slots |-> st.slots]

(***************************************************************************)
(* bytewise.WhiteSimilarity and asciiUpperWordLetterPairs                *)
(***************************************************************************)
RECURSIVE bytewiseWordPairsLoop(_, _, _)
bytewiseWordPairsLoop(s, i, bigrams) ==
    IF i >= Len(s) - 1 THEN bigrams
    ELSE LET y == asciiUpperOrSpace(At(s, i + 1))
             x == asciiUpperOrSpace(At(s, i))
         IN IF y[2] THEN bytewiseWordPairsLoop(s, i + 2, bigrams)
            ELSE IF x[2] THEN bytewiseWordPairsLoop(s, i + 1, bigrams)
            ELSE bytewiseWordPairsLoop(s, i + 1,
                     Append(bigrams, <<x[1], y[1]>>))

asciiUpperWordLetterPairs(s) ==
    IF Len(s) - 1 < 1 THEN << >>
    ELSE bytewiseWordPairsLoop(s, 0, << >>)

\* The scan of bPairs for the first slot equal to aBigram; 0 when there is
\* none.  Slots are numbered from 1.
RECURSIVE bytewiseWhiteFind(_, _, _)
bytewiseWhiteFind(aBigram, bPairs, j) ==
    IF j > Len(bPairs) THEN 0
    ELSE IF aBigram = bPairs[j] THEN j
    ELSE bytewiseWhiteFind(aBigram, bPairs, j + 1)

\* st: bPairs with the consumed slots overwritten by the zero bigram, the
\* intersection count, and slots, the sequence of slots matched so far.
RECURSIVE bytewiseWhiteMatch(_, _, _)
bytewiseWhiteMatch(aPairs, k, st) ==
    IF k > Len(aPairs) THEN st
    ELSE LET j == bytewiseWhiteFind(aPairs[k], st.bPairs, 1)
         IN IF j = 0 THEN bytewiseWhiteMatch(aPairs, k + 1, st)
            ELSE bytewiseWhiteMatch(aPairs, k + 1,
                    [bPairs |-> [st.bPairs EXCEPT ![j] = <<0, 0>>],
                     intersection |-> st.intersection + 1,
                     slots |-> Append(st.slots, j)])

BytewiseWhiteSimilarity(x, y) ==
    LET aPairs == asciiUpperWordLetterPairs(x)
        bPairs == asciiUpperWordLetterPairs(y)
        union == Len(aPairs) + Len(bPairs)
    IN IF union = 0
       THEN [status |-> "error", num |-> 0, den |-> 1,
             intersection |-> 0, slots |-> << >>]
       ELSE LET st == bytewiseWhiteMatch(aPairs, 1,
                          [bPairs |-> bPairs, intersection |-> 0, slots |-> << >>])
            IN [status |-> "ok", num |-> 2 * st.intersection, den |-> union,
                intersection |-> st.intersection, slots |-> st.slots]

(***************************************************************************)
(* HammingDistance of the packages runewise, bytewise and stralgo.  An     *)
(* error return carries the count 0.                                       *)
(***************************************************************************)
ErrVal == [status |-> "error", val |-> 0]

\* The count of the indices at which the units are equal.
RECURSIVE runewiseHammingLoopCountsEqual(_, _, _, _)
runewiseHammingLoopCountsEqual(s, t, i, d) ==
    IF i >= Len(s) THEN d
    ELSE runewiseHammingLoopCountsEqual(s, t, i + 1,
             IF At(s, i) = At(t, i) THEN d + 1 ELSE d)

RECURSIVE runewiseHammingLoop(_, _, _, _)
runewiseHammingLoop(s, t, i, d) ==
    IF i >= Len(s) THEN d
    ELSE runewiseHammingLoop(s, t, i + 1,
             IF At(s, i) # At(t, i) THEN d + 1 ELSE d)

\* A length mismatch reported together with the count over the common prefix.
RunewiseHammingDistancePartial(x, y) ==
    IF Len(x) # Len(y)
    THEN [status |-> "error",
          val |-> Cardinality({k \in 1..Len(x) : k <= Len(y) /\ x[k] # y[k]})]
    ELSE Ok(runewiseHammingLoop(x, y, 0, 0))

RunewiseHammingDistance(x, y) ==
    IF Len(x) # Len(y) THEN ErrVal
    ELSE Ok(runewiseHammingLoop(x, y, 0, 0))

RECURSIVE bytewiseHammingLoop(_, _, _, _)
bytewiseHammingLoop(s, t, i, d) ==
    IF i >= Len(s) THEN d
    ELSE bytewiseHammingLoop(s, t, i + 1,
             IF At(s, i) # At(t, i) THEN d + 1 ELSE d)

BytewiseHammingDistance(x, y) ==
    IF Len(x) # Len(y) THEN ErrVal
    ELSE Ok(bytewiseHammingLoop(x, y, 0, 0))

RECURSIVE stralgoHammingLoop(_, _, _, _)
stralgoHammingLoop(s, t, i, d) ==
    IF i >= Len(s) THEN d
    ELSE stralgoHammingLoop(s, t, i + 1,
             IF At(s, i) # At(t, i) THEN d + 1 ELSE d)

StralgoHammingDistance(x, y) ==
    IF Len(x) # Len(y) THEN ErrVal
    ELSE Ok(stralgoHammingLoop(x, y, 0, 0))

(***************************************************************************)
(* stralgo.LeeDistance.  terms is the sequence of the addends of d, one    *)
(* per index; q is the alphabet size the call was given.                   *)
(***************************************************************************)
\* The addend of index i: diff or q - diff, whichever the code picks.
leeTerm(s, t, q, i) ==
    LET raw == At(s, i) - At(t, i)
        diff == IF raw < 0 THEN -raw ELSE raw
        qDiff == q - diff
    IN IF diff < qDiff THEN diff ELSE qDiff

RECURSIVE leeLoop(_, _, _, _, _)
leeLoop(s, t, q, i, st) ==
    IF i >= Len(s) THEN st
    ELSE leeLoop(s, t, q, i + 1,
             [d |-> st.d + leeTerm(s, t, q, i),
              terms |-> Append(st.terms, leeTerm(s, t, q, i))])

\* LeeDistance with the alphabet-size check q < 1.
LeeDistanceQAtLeastOne(x, y, q) ==
    IF q < 1 THEN [status |-> "error", val |-> 0, terms |-> << >>, q |-> q]
    ELSE IF Len(x) # Len(y)
    THEN [status |-> "error", val |-> 0, terms |-> << >>, q |-> q]
    ELSE LET st == leeLoop(x, y, q, 0, [d |-> 0, terms |-> << >>])
         IN [status |-> "ok", val |-> st.d, terms |-> st.terms, q |-> q]

LeeDistance(x, y, q) ==
    IF q < 2 THEN [status |-> "error", val |-> 0, terms |-> << >>, q |-> q]
    ELSE IF Len(x) # Len(y)
    THEN [status |-> "error", val |-> 0, terms |-> << >>, q |-> q]
    ELSE LET st == leeLoop(x, y, q, 0, [d |-> 0, terms |-> << >>])
         IN [status |-> "ok", val |-> st.d, terms |-> st.terms, q |-> q]

(***************************************************************************)
(* runewise.JaroSimilarity with the enumeration order of the map           *)
(* bMatchedIndices made explicit.  Go enumerates a map in an unspecified   *)
(* order; order is the sequence in which the range loop yields the keys.   *)
(***************************************************************************)
\* The orders in which the keys S of a map can be enumerated.
EnumerationOrders(S) ==
    {f \in [1..Cardinality(S) -> S] :
        \A i, j \in 1..Cardinality(S) : i # j => f[i] # f[j]}

\* bIndices after the copy loop: the keys in enumeration order, then the
\* slots the loop left at zero.  The caller checks Len(order) <= n.
bIndicesCopied(order, n) ==
    [k \in 1..n |-> IF k <= Len(order) THEN order[k] ELSE 0]

RECURSIVE insertSorted(_, _)
insertSorted(seq, v) ==
    IF seq = << >> THEN <<v>>
    ELSE IF v <= Head(seq) THEN <<v>> \o seq
    ELSE <<Head(seq)>> \o insertSorted(Tail(seq), v)

\* bIndices left as the copy loop filled it.
sortIntsMissing(seq) == seq

\* sort.Ints: the same values in ascending order.
RECURSIVE sortInts(_)
sortInts(seq) ==
    IF seq = << >> THEN << >>
    ELSE insertSorted(sortInts(Tail(seq)), Head(seq))

jaroMatchesAndHalfTranspositionsEnumerated(x, y, order) ==
    IF Len(x) = 0 \/ Len(y) = 0
    THEN [panic |-> FALSE, matches |-> 0, trans |-> 0]
    ELSE LET s == IF Len(x) < Len(y) THEN y ELSE x
             t == IF Len(x) < Len(y) THEN x ELSE y
             matchMax == IF (Len(s) \div 2) - 1 < 0 THEN 0 ELSE (Len(s) \div 2) - 1
             st == jaroOuter(s, t, 0, matchMax,
                       [panic |-> FALSE,
                        aCommon |-> [k \in 0..(Len(s) - 1) |-> 0],
                        numAMatched |-> 0,
                        bMatchedIndices |-> {}, hits |-> {}, recorded |-> {}])
             n == st.numAMatched
         IN IF st.panic \/ Len(order) > n
            THEN [panic |-> TRUE, matches |-> n, trans |-> 0]
            ELSE LET sorted == sortInts(bIndicesCopied(order, n))
                     bIndices == [k \in 0..(n - 1) |-> sorted[k + 1]]
                 IN [panic |-> FALSE, matches |-> n,
                     trans |-> jaroTransCount(t, st.aCommon, bIndices, 0, n)]

JaroSimilarityEnumerated(x, y, order) ==
    LET r == jaroMatchesAndHalfTranspositionsEnumerated(x, y, order)
        m == r.matches
        base == [status |-> "ok", num |-> 0, den |-> 1, matches |-> m,
                 trans |-> r.trans, order |-> order]
    IN IF r.panic THEN [base EXCEPT !.status = "panic"]
       ELSE IF m = 0 THEN base
       ELSE [base EXCEPT
                !.num = m * Len(y) * m + m * Len(x) * m
                        + (m - (r.trans \div 2)) * Len(x) * Len(y),
                !.den = 3 * Len(x) * Len(y) * m]

(***************************************************************************)
(* Storage.  A heap is the sequence of the arrays that exist; the caller's *)
(* slices are arrays 1 and 2.  A slice is a header [obj, len]: the array   *)
(* it refers to and its length.  A call receives copies of the caller's    *)
(* two headers; make appends a new array to the heap; X[k] = v changes the *)
(* array that the header X refers to at that moment; an assignment to a    *)
(* header (a swap, a reslice) changes no array.  A map is an array holding *)
(* its keys; range over a map yields them in an order that the call is     *)
(* given (Go leaves it unspecified).  Each metric below is the code of the *)
(* runewise package run on a heap; it returns the heap it leaves, the      *)
(* status and the value.                                                   *)
(***************************************************************************)
CallerHeap(x, y) == <<x, y>>

header(obj, n) == [obj |-> obj, len |-> n]

\* An array of n zero values.
RECURSIVE zeroed(_, _)
zeroed(n, zero) == IF n <= 0 THEN << >> ELSE Append(zeroed(n - 1, zero), zero)

\* make([]T, n): the heap with a new array of n zero values; its header is
\* header(Len(make(heap, n, zero)), n).
make(heap, n, zero) == Append(heap, zeroed(n, zero))

\* X[k], k counted from 0.
load(heap, X, k) == heap[X.obj][k + 1]

inSlice(X, k) == 0 <= k /\ k < X.len

\* X[k] = v.
store(heap, X, k, v) == [heap EXCEPT ![X.obj] = [@ EXCEPT ![k + 1] = v]]

\* make(map[K]bool, n).
makeMap(heap) == Append(heap, << >>)

\* M[key], M the number of the map's array.
mapHas(heap, M, key) == \E k \in 1..Len(heap[M]) : heap[M][k] = key

\* M[key] = true.
mapPut(heap, M, key) ==
    IF mapHas(heap, M, key) THEN heap ELSE [heap EXCEPT ![M] = Append(@, key)]

\* The keys of the map M.
mapKeys(heap, M) == {heap[M][k] : k \in 1..Len(heap[M])}

(* HammingDistance: no element assignment. *)
RECURSIVE heapHammingLoop(_, _, _, _, _)
heapHammingLoop(heap, ah, bh, i, d) ==
    IF i >= ah.len THEN d
    ELSE heapHammingLoop(heap, ah, bh, i + 1,
                         IF load(heap, ah, i) # load(heap, bh, i) THEN d + 1 ELSE d)

HeapHammingDistance(heap, ah, bh) ==
    IF ah.len # bh.len THEN [heap |-> heap, status |-> "error", val |-> 0]
    ELSE [heap |-> heap, status |-> "ok",
          val |-> heapHammingLoop(heap, ah, bh, 0, 0)]

(* DiceCoefficient: aSet[bigram] = true and bSet[bigram] = true. *)
RECURSIVE heapDiceScanA(_, _, _, _, _)
heapDiceScanA(heap, ah, aSet, i, totalBigrams) ==
    IF i >= ah.len - 1 THEN [heap |-> heap, totalBigrams |-> totalBigrams]
    ELSE LET bigram == <<load(heap, ah, i), load(heap, ah, i + 1)>>
         IN IF ~mapHas(heap, aSet, bigram)
            THEN heapDiceScanA(mapPut(heap, aSet, bigram), ah, aSet, i + 1,
                               totalBigrams + 1)
            ELSE heapDiceScanA(heap, ah, aSet, i + 1, totalBigrams)

RECURSIVE heapDiceScanB(_, _, _, _, _, _)
heapDiceScanB(heap, bh, aSet, bSet, i, st) ==
    IF i >= bh.len - 1
    THEN [heap |-> heap, totalBigrams |-> st.totalBigrams,
          sharedBigrams |-> st.sharedBigrams]
    ELSE LET bigram == <<load(heap, bh, i), load(heap, bh, i + 1)>>
         IN IF ~mapHas(heap, bSet, bigram)
            THEN heapDiceScanB(mapPut(heap, bSet, bigram), bh, aSet, bSet, i + 1,
                     [totalBigrams |-> st.totalBigrams + 1,
                      sharedBigrams |-> IF mapHas(heap, aSet, bigram)
                                        THEN st.sharedBigrams + 1
                                        ELSE st.sharedBigrams])
            ELSE heapDiceScanB(heap, bh, aSet, bSet, i + 1, st)

HeapDiceCoefficient(heap, ah, bh) ==
    IF ah.len - 1 < 1 /\ bh.len - 1 < 1
    THEN [heap |-> heap, status |-> "error", val |-> <<0, 1>>]
    ELSE LET heap1 == makeMap(heap)
             aSet == Len(heap1)
             ra == heapDiceScanA(heap1, ah, aSet, 0, 0)
             heap2 == makeMap(ra.heap)
             bSet == Len(heap2)
             rb == heapDiceScanB(heap2, bh, aSet, bSet, 0,
                       [totalBigrams |-> ra.totalBigrams, sharedBigrams |-> 0])
         IN [heap |-> rb.heap, status |-> "ok",
             val |-> <<2 * rb.sharedBigrams, rb.totalBigrams>>]

(* WhiteSimilarity: bigrams[numPairs] = runeBigram{...} in                 *)
(* upperWordLetterPairs and bPairs[j] = runeBigram{} in the match loop.    *)

\* The pair loop with the upper-casing done in the input slice itself:
\* runes[i] = unicode.ToUpper(a) and runes[i+1] = unicode.ToUpper(b) before
\* the bigram is built from them.
RECURSIVE heapWordPairsLoopUpperInPlace(_, _, _, _, _)
heapWordPairsLoopUpperInPlace(heap, runes, bigrams, i, numPairs) ==
    IF i >= runes.len - 1 THEN [heap |-> heap, numPairs |-> numPairs]
    ELSE LET x == load(heap, runes, i)
             y == load(heap, runes, i + 1)
         IN IF IsSpace(y)
            THEN heapWordPairsLoopUpperInPlace(heap, runes, bigrams, i + 2, numPairs)
            ELSE IF IsSpace(x)
            THEN heapWordPairsLoopUpperInPlace(heap, runes, bigrams, i + 1, numPairs)
            ELSE LET heap1 == store(store(heap, runes, i, ToUpper(x)),
                                    runes, i + 1, ToUpper(y))
                 IN heapWordPairsLoopUpperInPlace(
                        store(heap1, bigrams, numPairs,
                              <<load(heap1, runes, i), load(heap1, runes, i + 1)>>),
                        runes, bigrams, i + 1, numPairs + 1)

RECURSIVE heapWordPairsLoop(_, _, _, _, _)
heapWordPairsLoop(heap, runes, bigrams, i, numPairs) ==
    IF i >= runes.len - 1 THEN [heap |-> heap, numPairs |-> numPairs]
    ELSE LET x == load(heap, runes, i)
             y == load(heap, runes, i + 1)
         IN IF IsSpace(y)
            THEN heapWordPairsLoop(heap, runes, bigrams, i + 2, numPairs)
            ELSE IF IsSpace(x)
            THEN heapWordPairsLoop(heap, runes, bigrams, i + 1, numPairs)
            ELSE heapWordPairsLoop(
                     store(heap, bigrams, numPairs, <<ToUpper(x), ToUpper(y)>>),
                     runes, bigrams, i + 1, numPairs + 1)

\* The heap and the header of bigrams[0:numPairs].
heapUpperWordLetterPairs(heap, runes) ==
    LET limit == runes.len - 1
    IN IF limit < 1
       THEN [heap |-> make(heap, 0, <<0, 0>>), pairs |-> header(Len(heap) + 1, 0)]
       ELSE LET heap1 == make(heap, limit, <<0, 0>>)
                bigrams == header(Len(heap1), limit)
                r == heapWordPairsLoop(heap1, runes, bigrams, 0, 0)
            IN [heap |-> r.heap, pairs |-> header(bigrams.obj, r.numPairs)]

\* The inner loop over bPairs: on the first equal slot, bPairs[j] =
\* runeBigram{} and break.
RECURSIVE heapWhiteFind(_, _, _, _)
heapWhiteFind(heap, aBigram, bPairs, j) ==
    IF j >= bPairs.len THEN [heap |-> heap, found |-> -1]
    ELSE IF aBigram = load(heap, bPairs, j)
    THEN [heap |-> store(heap, bPairs, j, <<0, 0>>), found |-> j]
    ELSE heapWhiteFind(heap, aBigram, bPairs, j + 1)

\* st: the intersection count and slots, the slots of bPairs overwritten.
RECURSIVE heapWhiteMatch(_, _, _, _, _)
heapWhiteMatch(heap, aPairs, bPairs, k, st) ==
    IF k >= aPairs.len
    THEN [heap |-> heap, intersection |-> st.intersection, slots |-> st.slots]
    ELSE LET r == heapWhiteFind(heap, load(heap, aPairs, k), bPairs, 0)
         IN IF r.found < 0 THEN heapWhiteMatch(heap, aPairs, bPairs, k + 1, st)
            ELSE heapWhiteMatch(r.heap, aPairs, bPairs, k + 1,
                     [intersection |-> st.intersection + 1,
                      slots |-> Append(st.slots, r.found)])

HeapWhiteSimilarity(heap, ah, bh) ==
    LET ra == heapUpperWordLetterPairs(heap, ah)
        rb == heapUpperWordLetterPairs(ra.heap, bh)
        union == ra.pairs.len + rb.pairs.len
    IN IF union = 0
       THEN [heap |-> rb.heap, status |-> "error", val |-> <<0, 1>>,
             slots |-> << >>, bPairs |-> rb.pairs]
       ELSE LET m == heapWhiteMatch(rb.heap, ra.pairs, rb.pairs, 0,
                         [intersection |-> 0, slots |-> << >>])
            IN [heap |-> m.heap, status |-> "ok",
                val |-> <<2 * m.intersection, union>>,
                slots |-> m.slots, bPairs |-> rb.pairs]

\* for h := 0; h < rowLen; h++ { prevRow[h] = h }
RECURSIVE heapFillRow(_, _, _)
heapFillRow(heap, prevRow, h) ==
    IF h >= prevRow.len THEN heap
    ELSE heapFillRow(store(heap, prevRow, h, h), prevRow, h + 1)

(* LevenshteinDistance: prevRow[h] = h, currRow[0] = i + 1 and             *)
(* currRow[j+1] = min(...); prevRow, currRow = currRow, prevRow exchanges  *)
(* two headers.                                                            *)
RECURSIVE heapLevInner(_, _, _, _, _, _, _)
heapLevInner(heap, ah, bh, i, j, prevRow, currRow) ==
    IF j >= bh.len THEN heap
    ELSE LET cost == IF load(heap, ah, i) = load(heap, bh, j) THEN 0 ELSE 1
             entry == min(load(heap, currRow, j) + 1,
                          load(heap, prevRow, j + 1) + 1,
                          load(heap, prevRow, j) + cost)
         IN heapLevInner(store(heap, currRow, j + 1, entry),
                         ah, bh, i, j + 1, prevRow, currRow)

RECURSIVE heapLevOuter(_, _, _, _, _, _)
heapLevOuter(heap, ah, bh, i, prevRow, currRow) ==
    IF i >= ah.len
    THEN [heap |-> heap, status |-> "ok", val |-> load(heap, prevRow, bh.len)]
    ELSE heapLevOuter(heapLevInner(store(heap, currRow, 0, i + 1),
                                   ah, bh, i, 0, prevRow, currRow),
                      ah, bh, i + 1, currRow, prevRow)

HeapLevenshteinDistance(heap, ah, bh) ==
    IF ah.len = 0 THEN [heap |-> heap, status |-> "ok", val |-> bh.len]
    ELSE IF bh.len = 0 THEN [heap |-> heap, status |-> "ok", val |-> ah.len]
    ELSE LET rowLen == bh.len + 1
             heap1 == make(heap, rowLen, 0)
             prevRow == header(Len(heap1), rowLen)
             heap2 == make(heap1, rowLen, 0)
             currRow == header(Len(heap2), rowLen)
         IN heapLevOuter(heapFillRow(heap2, prevRow, 0), ah, bh, 0, prevRow, currRow)

(* DamerauLevenshteinDistance: a, aLen, b, bLen = b, bLen, a, aLen         *)
(* exchanges the two headers; prevRow[h] = h, currRow[0] = i and           *)
(* currRow[j] = entry; tranRow, prevRow, currRow = prevRow, currRow,       *)
(* tranRow rotates three headers.  st holds the heap, the three row        *)
(* headers, prevA, prevB and the panic flag.                               *)
RECURSIVE heapDLInner(_, _, _, _, _, _)
heapDLInner(ah, bh, i, j, end, st) ==
    IF j > end \/ st.panic THEN st
    ELSE IF ~(inSlice(ah, j - 1) /\ inSlice(bh, i - 1)) THEN [st EXCEPT !.panic = TRUE]
    ELSE LET currA == load(st.heap, ah, j - 1)
             currB == load(st.heap, bh, i - 1)
             cost == IF currA = currB THEN 0 ELSE 1
             entry == min(load(st.heap, st.currRow, j - 1) + 1,
                          load(st.heap, st.prevRow, j) + 1,
                          load(st.heap, st.prevRow, j - 1) + cost)
             swapped == currA = st.prevB /\ currB = st.prevA
         IN IF swapped /\ ~inSlice(st.tranRow, j - 2)
            THEN [st EXCEPT !.panic = TRUE]
            ELSE LET trans == load(st.heap, st.tranRow, j - 2) + cost
                     final == IF swapped /\ trans < entry THEN trans ELSE entry
                 IN heapDLInner(ah, bh, i, j + 1, end,
                        [st EXCEPT !.heap = store(@, st.currRow, j, final),
                                   !.prevA = currA])

RECURSIVE heapDLOuter(_, _, _, _)
heapDLOuter(ah, bh, i, st) ==
    IF st.panic THEN [heap |-> st.heap, status |-> "panic", val |-> 0]
    ELSE IF i > bh.len
    THEN [heap |-> st.heap, status |-> "ok",
          val |-> load(st.heap, st.prevRow, ah.len)]
    ELSE LET start == IF i - bh.len - 1 < 1 THEN 1 ELSE i - bh.len - 1
             end == IF i + bh.len + 1 > ah.len THEN ah.len ELSE i + bh.len + 1
             st0 == [st EXCEPT !.heap = store(@, st.currRow, 0, i), !.prevA = 0]
             st1 == heapDLInner(ah, bh, i, start, end, st0)
         IN heapDLOuter(ah, bh, i + 1,
                [st1 EXCEPT !.prevB = IF st1.panic THEN @ ELSE load(st1.heap, bh, i - 1),
                            !.tranRow = st1.prevRow,
                            !.prevRow = st1.currRow,
                            !.currRow = st1.tranRow])

HeapDamerauLevenshteinDistance(heap, x, y) ==
    IF x.len = 0 THEN [heap |-> heap, status |-> "ok", val |-> y.len]
    ELSE IF y.len = 0 THEN [heap |-> heap, status |-> "ok", val |-> x.len]
    ELSE LET ah == IF x.len > y.len THEN y ELSE x
             bh == IF x.len > y.len THEN x ELSE y
             rowLen == ah.len + 1
             heap1 == make(heap, rowLen, 0)
             tranRow == header(Len(heap1), rowLen)
             heap2 == make(heap1, rowLen, 0)
             prevRow == header(Len(heap2), rowLen)
             heap3 == make(heap2, rowLen, 0)
             currRow == header(Len(heap3), rowLen)
         IN heapDLOuter(ah, bh, 1,
                [heap |-> heapFillRow(heap3, prevRow, 0),
                 tranRow |-> tranRow, prevRow |-> prevRow, currRow |-> currRow,
                 prevA |-> 0, prevB |-> 0, panic |-> FALSE])

(* jaroMatchesAndHalfTranspositions: a, aLen, b, bLen = b, bLen, a, aLen   *)
(* exchanges the two headers; aCommon[numAMatched] = aRune,                *)
(* bMatchedIndices[j] = true, bIndices[c] = s and sort.Ints(bIndices).     *)
(* st holds the heap, numAMatched and the panic flag.  order is the        *)
(* sequence in which range bMatchedIndices yields the keys of the map.     *)
RECURSIVE heapJaroInner(_, _, _, _, _, _, _, _, _)
heapJaroInner(ah, bh, aCommon, bMatchedIndices, i, j, to, aMatched, st) ==
    IF j > to \/ st.panic THEN st
    ELSE IF ~(inSlice(ah, i) /\ inSlice(bh, j)) THEN [st EXCEPT !.panic = TRUE]
    ELSE IF load(st.heap, ah, i) # load(st.heap, bh, j)
    THEN heapJaroInner(ah, bh, aCommon, bMatchedIndices, i, j + 1, to, aMatched, st)
    ELSE LET st1 == IF ~aMatched
                    THEN [st EXCEPT !.heap = store(@, aCommon, st.numAMatched,
                                                   load(st.heap, ah, i)),
                                    !.numAMatched = @ + 1]
                    ELSE st
         IN heapJaroInner(ah, bh, aCommon, bMatchedIndices, i, j + 1, to, TRUE,
                [st1 EXCEPT !.heap = mapPut(@, bMatchedIndices, j)])

RECURSIVE heapJaroOuter(_, _, _, _, _, _, _)
heapJaroOuter(ah, bh, aCommon, bMatchedIndices, i, matchMax, st) ==
    IF i >= ah.len \/ st.panic THEN st
    ELSE LET from == IF i - matchMax < 0 THEN 0 ELSE i - matchMax
             to == IF i + matchMax >= bh.len THEN bh.len - 1 ELSE i + matchMax
         IN heapJaroOuter(ah, bh, aCommon, bMatchedIndices, i + 1, matchMax,
                heapJaroInner(ah, bh, aCommon, bMatchedIndices, i, from, to, FALSE, st))

\* for s, _ := range bMatchedIndices { bIndices[c] = s; c++ }, the keys
\* yielded in the sequence order.
RECURSIVE heapJaroCopy(_, _, _, _)
heapJaroCopy(heap, order, bIndices, c) ==
    IF c >= Len(order) THEN [heap |-> heap, panic |-> FALSE]
    ELSE IF ~inSlice(bIndices, c) THEN [heap |-> heap, panic |-> TRUE]
    ELSE heapJaroCopy(store(heap, bIndices, c, order[c + 1]), order, bIndices, c + 1)

RECURSIVE heapJaroTransCount(_, _, _, _, _, _)
heapJaroTransCount(heap, bh, aCommon, bIndices, k, n) ==
    IF k >= n THEN 0
    ELSE (IF load(heap, aCommon, k) # load(heap, bh, load(heap, bIndices, k))
          THEN 1 ELSE 0)
         + heapJaroTransCount(heap, bh, aCommon, bIndices, k + 1, n)

\* The function up to the end of its matching loops: the headers after the
\* swap, the two objects it made, and st as the loops leave it.
heapJaroMatched(heap, x, y) ==
    LET ah == IF x.len < y.len THEN y ELSE x
        bh == IF x.len < y.len THEN x ELSE y
        matchMax == IF (ah.len \div 2) - 1 < 0 THEN 0 ELSE (ah.len \div 2) - 1
        heap1 == make(heap, ah.len, 0)
        aCommon == header(Len(heap1), ah.len)
        heap2 == makeMap(heap1)
        bMatchedIndices == Len(heap2)
    IN [ah |-> ah, bh |-> bh, aCommon |-> aCommon,
        bMatchedIndices |-> bMatchedIndices,
        st |-> heapJaroOuter(ah, bh, aCommon, bMatchedIndices, 0, matchMax,
                   [heap |-> heap2, numAMatched |-> 0, panic |-> FALSE])]

\* The keys that bMatchedIndices holds when the copy loop starts.
heapJaroKeys(heap, x, y) ==
    IF x.len = 0 \/ y.len = 0 THEN {}
    ELSE mapKeys(heapJaroMatched(heap, x, y).st.heap,
                 heapJaroMatched(heap, x, y).bMatchedIndices)

\* The function from bIndices := make(...) on.
heapJaroCopySortCount(m, order) ==
    LET n == m.st.numAMatched
        heap3 == make(m.st.heap, n, 0)
        bIndices == header(Len(heap3), n)
        st3 == IF m.st.panic THEN [heap |-> m.st.heap, panic |-> TRUE]
               ELSE heapJaroCopy(heap3, order, bIndices, 0)
    IN IF st3.panic
       THEN [heap |-> st3.heap, panic |-> TRUE, matches |-> n, trans |-> 0]
       ELSE LET heap4 == [st3.heap EXCEPT ![bIndices.obj] =
                               sortInts(st3.heap[bIndices.obj])]
            IN [heap |-> heap4, panic |-> FALSE, matches |-> n,
                trans |-> heapJaroTransCount(heap4, m.bh, m.aCommon, bIndices, 0, n)]

heapJaroMatchesAndHalfTranspositions(heap, x, y, order) ==
    IF x.len = 0 \/ y.len = 0
    THEN [heap |-> heap, panic |-> FALSE, matches |-> 0, trans |-> 0]
    ELSE heapJaroCopySortCount(heapJaroMatched(heap, x, y), order)

\* The value is kept as <<matches, transpositions>>.
HeapJaroSimilarity(heap, ah, bh, order) ==
    LET r == heapJaroMatchesAndHalfTranspositions(heap, ah, bh, order)
    IN [heap |-> r.heap, status |-> IF r.panic THEN "panic" ELSE "ok",
        val |-> <<r.matches, r.trans>>]

(* clampedSharedPrefixLength: no element assignment. *)
RECURSIVE heapSharedPrefixLoop(_, _, _, _, _)
heapSharedPrefixLoop(heap, ah, bh, i, minLen) ==
    IF i >= minLen THEN i
    ELSE IF load(heap, ah, i) # load(heap, bh, i) THEN i
    ELSE heapSharedPrefixLoop(heap, ah, bh, i + 1, minLen)

\* JaroWinklerSimilarityParametric after its call of JaroSimilarity returned
\* r: the test j < boostThreshold, then the prefix loop of
\* clampedSharedPrefixLength.  x and y are the units the call was made on.
heapWinklerBoost(r, x, y, ah, bh) ==
    IF r.status = "panic" THEN r
    ELSE IF jaroBelowThreshold(x, y, JaroSimilarity(x, y), WinklerBoostThreshold)
    THEN [heap |-> r.heap, status |-> "ok", val |-> <<r.val[1], r.val[2], 0>>]
    ELSE [heap |-> r.heap, status |-> "ok",
          val |-> <<r.val[1], r.val[2],
                    heapSharedPrefixLoop(r.heap, ah, bh, 0,
                        min(ah.len, bh.len, WinklerMaxPrefixLength))>>]

\* JaroWinklerSimilarity: the stores of JaroSimilarity, then the boost.
\* The value is kept as <<matches, transpositions, prefix>>, prefix 0 when
\* j is returned as is.
HeapJaroWinklerSimilarity(heap, ah, bh, order) ==
    heapWinklerBoost(HeapJaroSimilarity(heap, ah, bh, order),
                     heap[ah.obj], heap[bh.obj], ah, bh)

(***************************************************************************)
(* The state machine: one call of one metric on the drawn inputs.          *)
(***************************************************************************)
Init ==
    /\ a \in Inputs
    /\ b \in Inputs
    /\ op = "none"
    /\ res = NoResult

CallRunewiseLevenshtein ==
    /\ op = "none"
    /\ op' = "runewise.LevenshteinDistance"
    /\ res' = RunewiseLevenshteinDistance(a, b)
    /\ UNCHANGED <<a, b>>

CallBytewiseLevenshtein ==
    /\ op = "none"
    /\ op' = "bytewise.LevenshteinDistance"
    /\ res' = BytewiseLevenshteinDistance(a, b)
    /\ UNCHANGED <<a, b>>

CallRunewiseDamerauLevenshtein ==
    /\ op = "none"
    /\ op' = "runewise.DamerauLevenshteinDistance"
    /\ res' = RunewiseDamerauLevenshteinDistance(a, b)
    /\ UNCHANGED <<a, b>>

CallBytewiseDamerauLevenshtein ==
    /\ op = "none"
    /\ op' = "bytewise.DamerauLevenshteinDistance"
    /\ res' = BytewiseDamerauLevenshteinDistance(a, b)
    /\ UNCHANGED <<a, b>>

CallJaroSimilarity ==
    /\ op = "none"
    /\ op' = "runewise.JaroSimilarity"
    /\ res' = JaroSimilarity(a, b)
    /\ UNCHANGED <<a, b>>

Next ==
    \/ CallJaroSimilarity
    \/ CallRunewiseLevenshtein
    \/ CallBytewiseLevenshtein
    \/ CallRunewiseDamerauLevenshtein
    \/ CallBytewiseDamerauLevenshtein

Spec == Init /\ [][Next]_vars

(***************************************************************************)
(* The Jaro-Winkler calls.  The inputs are drawn over the two units 0, 1;  *)
(* the parametric call draws its three arguments from small sets, among    *)
(* them a negative maxPrefixLength, a prefixScale * maxPrefixLength above  *)
(* 1, and a boostThreshold of 0 that every Jaro value reaches.             *)
(***************************************************************************)
JWInputs == UNION {[1..n -> {0, 1}] : n \in 0..MaxLen}

PrefixScales == {<<1, 10>>, <<1, 2>>}

MaxPrefixLengths == {-1, 1, 4}

BoostThresholds == {<<0, 1>>, <<7, 10>>, <<5, 6>>}

InitJW ==
    /\ a \in JWInputs
    /\ b \in JWInputs
    /\ op = "none"
    /\ res = NoResult

CallJaroWinklerSimilarity ==
    /\ op = "none"
    /\ op' = "runewise.JaroWinklerSimilarity"
    /\ res' = JaroWinklerSimilarity(a, b)
    /\ UNCHANGED <<a, b>>

CallJaroWinklerSimilarityParametric ==
    /\ op = "none"
    /\ \E prefixScale \in PrefixScales, maxPrefixLength \in MaxPrefixLengths,
          boostThreshold \in BoostThresholds :
          res' = JaroWinklerSimilarityParametric(a, b, prefixScale,
                                                 maxPrefixLength, boostThreshold)
    /\ op' = "runewise.JaroWinklerSimilarityParametric"
    /\ UNCHANGED <<a, b>>

NextJW ==
    \/ CallJaroSimilarity
    \/ CallJaroWinklerSimilarity
    \/ CallJaroWinklerSimilarityParametric

SpecJW == InitJW /\ [][NextJW]_vars

(***************************************************************************)
(* JaroSimilarity on non-empty inputs in which no unit occurs twice.       *)
(***************************************************************************)
DistinctUnits == 0..4

DistinctInputs ==
    {s \in UNION {[1..n -> DistinctUnits] : n \in 1..MaxLen} :
        \A i, j \in 1..Len(s) : i # j => s[i] # s[j]}

InitDistinct ==
    /\ a \in DistinctInputs
    /\ b \in DistinctInputs
    /\ op = "none"
    /\ res = NoResult

NextDistinct == CallJaroSimilarity

SpecDistinct == InitDistinct /\ [][NextDistinct]_vars

(***************************************************************************)
(* The bigram metrics are called on inputs over the zero unit, the space,  *)
(* 'a' and 233 (e with acute, whose upper case is outside ASCII), one unit *)
(* shorter than the inputs of the other metrics.                           *)
(***************************************************************************)
BigramUnits == {0, 32, 97, 233}

BigramInputs == UNION {[1..n -> BigramUnits] : n \in 0..(MaxLen - 1)}

InitBigram ==
    /\ a \in BigramInputs
    /\ b \in BigramInputs
    /\ op = "none"
    /\ res = NoResult

CallRunewiseDiceCoefficient ==
    /\ op = "none"
    /\ op' = "runewise.DiceCoefficient"
    /\ res' = RunewiseDiceCoefficient(a, b)
    /\ UNCHANGED <<a, b>>

CallBytewiseDiceCoefficient ==
    /\ op = "none"
    /\ op' = "bytewise.DiceCoefficient"
    /\ res' = BytewiseDiceCoefficient(a, b)
    /\ UNCHANGED <<a, b>>

CallRunewiseWhiteSimilarity ==
    /\ op = "none"
    /\ op' = "runewise.WhiteSimilarity"
    /\ res' = RunewiseWhiteSimilarity(a, b)
    /\ UNCHANGED <<a, b>>

CallBytewiseWhiteSimilarity ==
    /\ op = "none"
    /\ op' = "bytewise.WhiteSimilarity"
    /\ res' = BytewiseWhiteSimilarity(a, b)
    /\ UNCHANGED <<a, b>>

NextBigram ==
    \/ CallRunewiseDiceCoefficient
    \/ CallBytewiseDiceCoefficient
    \/ CallRunewiseWhiteSimilarity
    \/ CallBytewiseWhiteSimilarity

SpecBigram == InitBigram /\ [][NextBigram]_vars

(***************************************************************************)
(* The Hamming and Lee calls.  The inputs are drawn over four byte values  *)
(* whose differences are 1, 2, 3, 4 and 5, so that a difference is below,  *)
(* equal to and above each alphabet size drawn.                            *)
(***************************************************************************)
LeeUnits == {0, 1, 2, 5}

LeeInputs == UNION {[1..n -> LeeUnits] : n \in 0..(MaxLen - 2)}

\* Alphabet sizes: three that are rejected and three that are accepted.
QValues == {-1, 0, 1, 2, 3, 4}

InitLee ==
    /\ a \in LeeInputs
    /\ b \in LeeInputs
    /\ op = "none"
    /\ res = NoResult

CallRunewiseHammingDistance ==
    /\ op = "none"
    /\ op' = "runewise.HammingDistance"
    /\ res' = RunewiseHammingDistance(a, b)
    /\ UNCHANGED <<a, b>>

CallBytewiseHammingDistance ==
    /\ op = "none"
    /\ op' = "bytewise.HammingDistance"
    /\ res' = BytewiseHammingDistance(a, b)
    /\ UNCHANGED <<a, b>>

CallStralgoHammingDistance ==
    /\ op = "none"
    /\ op' = "stralgo.HammingDistance"
    /\ res' = StralgoHammingDistance(a, b)
    /\ UNCHANGED <<a, b>>

CallLeeDistance ==
    /\ op = "none"
    /\ \E q \in QValues :
         /\ op' = "stralgo.LeeDistance"
         /\ res' = LeeDistance(a, b, q)
    /\ UNCHANGED <<a, b>>

NextLee ==
    \/ CallRunewiseHammingDistance
    \/ CallBytewiseHammingDistance
    \/ CallStralgoHammingDistance
    \/ CallLeeDistance

SpecLee == InitLee /\ [][NextLee]_vars

(***************************************************************************)
(* The JaroSimilarity call under every enumeration order of the map of     *)
(* matched b positions.                                                    *)
(***************************************************************************)
CallJaroSimilarityEnumerated ==
    /\ op = "none"
    /\ \E order \in EnumerationOrders(
                        jaroMatchesAndHalfTranspositions(a, b).bMatchedIndices) :
         /\ op' = "runewise.JaroSimilarity (map order drawn)"
         /\ res' = JaroSimilarityEnumerated(a, b, order)
    /\ UNCHANGED <<a, b>>

NextOrder == CallJaroSimilarityEnumerated

SpecOrder == InitJW /\ [][NextOrder]_vars

(***************************************************************************)
(* The runewise calls with the caller's memory: a and b after the step are *)
(* the caller's two arrays as the call leaves them.                        *)
(***************************************************************************)
FrameUnits == {0, 32, 97}

\* The units of the longest inputs.
FrameLongUnits == {0, 97}

FrameInputs ==
    UNION {[1..n -> FrameUnits] : n \in 0..(MaxLen - 1)}
        \cup [1..MaxLen -> FrameLongUnits]

InitFrame ==
    /\ a \in FrameInputs
    /\ b \in FrameInputs
    /\ op = "none"
    /\ res = NoResult

ReturnFromHammingDistance ==
    /\ op = "none"
    /\ op' = "runewise.HammingDistance"
    /\ LET r == HeapHammingDistance(CallerHeap(a, b), header(1, Len(a)), header(2, Len(b)))
       IN /\ res' = r
          /\ a' = r.heap[1]
          /\ b' = r.heap[2]

ReturnFromDiceCoefficient ==
    /\ op = "none"
    /\ op' = "runewise.DiceCoefficient"
    /\ LET r == HeapDiceCoefficient(CallerHeap(a, b), header(1, Len(a)), header(2, Len(b)))
       IN /\ res' = r
          /\ a' = r.heap[1]
          /\ b' = r.heap[2]

ReturnFromWhiteSimilarity ==
    /\ op = "none"
    /\ op' = "runewise.WhiteSimilarity"
    /\ LET r == HeapWhiteSimilarity(CallerHeap(a, b), header(1, Len(a)), header(2, Len(b)))
       IN /\ res' = r
          /\ a' = r.heap[1]
          /\ b' = r.heap[2]

ReturnFromLevenshteinDistance ==
    /\ op = "none"
    /\ op' = "runewise.LevenshteinDistance"
    /\ LET r == HeapLevenshteinDistance(CallerHeap(a, b), header(1, Len(a)), header(2, Len(b)))
       IN /\ res' = r
          /\ a' = r.heap[1]
          /\ b' = r.heap[2]

ReturnFromDamerauLevenshteinDistance ==
    /\ op = "none"
    /\ op' = "runewise.DamerauLevenshteinDistance"
    /\ LET r == HeapDamerauLevenshteinDistance(CallerHeap(a, b), header(1, Len(a)), header(2, Len(b)))
       IN /\ res' = r
          /\ a' = r.heap[1]
          /\ b' = r.heap[2]

ReturnFromJaroSimilarity ==
    /\ op = "none"
    /\ op' = "runewise.JaroSimilarity"
    /\ \E order \in EnumerationOrders(
                        heapJaroKeys(CallerHeap(a, b), header(1, Len(a)), header(2, Len(b)))) :
         LET r == HeapJaroSimilarity(CallerHeap(a, b), header(1, Len(a)),
                                     header(2, Len(b)), order)
         IN /\ res' = r
            /\ a' = r.heap[1]
            /\ b' = r.heap[2]

ReturnFromJaroWinklerSimilarity ==
    /\ op = "none"
    /\ op' = "runewise.JaroWinklerSimilarity"
    /\ \E order \in EnumerationOrders(
                        heapJaroKeys(CallerHeap(a, b), header(1, Len(a)), header(2, Len(b)))) :
         LET r == HeapJaroWinklerSimilarity(CallerHeap(a, b), header(1, Len(a)),
                                            header(2, Len(b)), order)
         IN /\ res' = r
            /\ a' = r.heap[1]
            /\ b' = r.heap[2]

NextFrame ==
    \/ ReturnFromHammingDistance
    \/ ReturnFromDiceCoefficient
    \/ ReturnFromWhiteSimilarity
    \/ ReturnFromLevenshteinDistance
    \/ ReturnFromDamerauLevenshteinDistance
    \/ ReturnFromJaroSimilarity
    \/ ReturnFromJaroWinklerSimilarity

SpecFrame == InitFrame /\ [][NextFrame]_vars

(***************************************************************************)
(* Reference: the Levenshtein distance by its defining recursion on the    *)
(* tails of the two sequences.                                             *)
(***************************************************************************)
Min2(x, y) == IF x < y THEN x ELSE y

RECURSIVE EditDistance(_, _)
EditDistance(s, t) ==
    IF Len(s) = 0 THEN Len(t)
    ELSE IF Len(t) = 0 THEN Len(s)
    ELSE IF Head(s) = Head(t) THEN EditDistance(Tail(s), Tail(t))
    ELSE 1 + Min2(EditDistance(Tail(s), t),
                  Min2(EditDistance(s, Tail(t)),
                       EditDistance(Tail(s), Tail(t))))

\* C1: runewise LevenshteinDistance(a, b) returns, with a nil error, the
\* minimum number of single-unit insertions, deletions and substitutions
\* that turn a into b (the other length when one is empty, 0 when a = b).
C1_RunewiseLevenshteinIsEditDistance ==
    op = "runewise.LevenshteinDistance" =>
        /\ res.status = "ok"
        /\ res.val = EditDistance(a, b)
        /\ (Len(a) = 0 => res.val = Len(b))
        /\ (Len(b) = 0 => res.val = Len(a))
        /\ (a = b => res.val = 0)

\* A call on two different non-empty sequences of different lengths in which
\* the best script mixes a substitution with an insertion or deletion.
C1_Witness ==
    /\ op = "runewise.LevenshteinDistance"
    /\ Len(a) = 3 /\ Len(b) = 2
    /\ a[1] # b[1] /\ a[2] = b[2]
    /\ res = Ok(2)

\* C2: bytewise LevenshteinDistance(a, b) returns the minimum number of
\* single-byte insertions, deletions and substitutions that turn a into b,
\* and the substitution cost of cell (i, j) is 0 exactly when a[i] = b[j].
C2_BytewiseLevenshteinIsEditDistance ==
    op = "bytewise.LevenshteinDistance" =>
        /\ res.status = "ok"
        /\ res.val = EditDistance(a, b)
        /\ \A i \in 0..(Len(a) - 1), j \in 0..(Len(b) - 1) :
              InRange(b, i) =>
                  (bytewiseLevCost(a, b, i, j) = 0 <=> At(a, i) = At(b, j))

\* C3: LevenshteinDistance is symmetric in both granularity forms: the
\* calls on (a, b) and on (b, a) both complete and return the same count.
C3_LevenshteinSymmetric ==
    /\ op = "runewise.LevenshteinDistance" =>
          /\ res.status = "ok"
          /\ RunewiseLevenshteinDistance(b, a) = res
    /\ op = "bytewise.LevenshteinDistance" =>
          /\ res.status = "ok"
          /\ BytewiseLevenshteinDistance(b, a) = res

\* C4: bytewise LevenshteinDistance has no precondition: every call
\* completes without an out-of-range read, also when len(a) > len(b).
C4_BytewiseLevenshteinNeverPanics ==
    op = "bytewise.LevenshteinDistance" => res.status = "ok"

(***************************************************************************)
(* Reference: the restricted (optimal string alignment) distance, in which *)
(* a swap of two adjacent units is one edit and no unit is edited twice.   *)
(***************************************************************************)
RECURSIVE OSADistance(_, _)
OSADistance(s, t) ==
    IF Len(s) = 0 THEN Len(t)
    ELSE IF Len(t) = 0 THEN Len(s)
    ELSE LET plain == Min2(1 + OSADistance(Tail(s), t),
                           Min2(1 + OSADistance(s, Tail(t)),
                                (IF Head(s) = Head(t) THEN 0 ELSE 1)
                                + OSADistance(Tail(s), Tail(t))))
         IN IF Len(s) >= 2 /\ Len(t) >= 2 /\ s[1] = t[2] /\ s[2] = t[1]
            THEN Min2(plain, 1 + OSADistance(Tail(Tail(s)), Tail(Tail(t))))
            ELSE plain

IsDamerauCall ==
    op \in {"runewise.DamerauLevenshteinDistance", "bytewise.DamerauLevenshteinDistance"}

\* C5: DamerauLevenshteinDistance(a, b) returns, for every pair of sequences
\* over any alphabet (the zero-valued unit included), the adjacent-
\* transposition edit distance.
C5_DamerauIsOSADistance ==
    IsDamerauCall =>
        /\ res.status = "ok"
        /\ res.val = OSADistance(a, b)

\* C6: DamerauLevenshteinDistance has no precondition: every call completes,
\* and tranRow[j-2] is read only when j >= 2 and only when i >= 2.
C6_DamerauTranRowReadsAreSafe ==
    IsDamerauCall =>
        /\ res.status = "ok"
        /\ \A r \in res.reads : r[1] >= 2 /\ r[2] >= 2

\* t is s with two adjacent, distinct units swapped and nothing else.
IsAdjacentSwap(s, t) ==
    /\ Len(s) = Len(t)
    /\ \E k \in 1..(Len(s) - 1) :
          /\ s[k] # s[k + 1]
          /\ t = [s EXCEPT ![k] = s[k + 1], ![k + 1] = s[k]]

\* C7: for codepoint inputs, whenever b is a with two adjacent distinct
\* units swapped, DamerauLevenshteinDistance(a, b) = 1 and
\* LevenshteinDistance(a, b) = 2.
C7_AdjacentSwapScoresOne ==
    (op = "runewise.DamerauLevenshteinDistance" /\ IsAdjacentSwap(a, b)) =>
        /\ res.status = "ok"
        /\ res.val = 1
        /\ RunewiseLevenshteinDistance(a, b) = Ok(2)

MinLen == Min2(Len(a), Len(b))

\* C8: JaroSimilarity(a, b) lies in [0, 1]: the match count never exceeds
\* min(len(a), len(b)).
C8_JaroInUnitRange ==
    op = "runewise.JaroSimilarity" =>
        /\ res.status = "ok"
        /\ res.matches <= MinLen
        /\ 0 <= res.num
        /\ res.num <= res.den

\* C9: JaroSimilarity has no failure mode: every call completes; the number
\* of b-side positions recorded never exceeds the number of matched a-side
\* units.
C9_JaroNeverPanics ==
    op = "runewise.JaroSimilarity" =>
        /\ res.status = "ok"
        /\ Cardinality(res.bMatchedIndices) <= res.matches

\* C10: Jaro matching is one-to-one: each position of the shorter sequence
\* is matched to at most one unit of the longer one, and each matched unit
\* of the longer sequence records exactly one position of the shorter one.
C10_JaroMatchingOneToOne ==
    op = "runewise.JaroSimilarity" =>
        /\ \A h1, h2 \in res.hits : h1[2] = h2[2] => h1[1] = h2[1]
        /\ \A h \in res.hits :
              Cardinality({r \in res.recorded : r[1] = h[1]}) = 1

\* C11: JaroSimilarity(a, a) = 1.0 for every non-empty a, repeated units
\* included: every unit is matched and there are no half-transpositions.
C11_JaroOfEqualIsOne ==
    (op = "runewise.JaroSimilarity" /\ a = b /\ Len(a) > 0) =>
        /\ res.status = "ok"
        /\ res.matches = Len(a)
        /\ res.trans = 0
        /\ res.num = res.den

\* A call on two equal sequences of full length that repeat a unit and hold
\* two different units.
C11_Witness ==
    /\ op = "runewise.JaroSimilarity"
    /\ a = b /\ Len(a) = MaxLen
    /\ a[1] = a[2] /\ a[1] # a[MaxLen]
    /\ res.status = "ok" /\ res.num = res.den

\* C12: JaroSimilarity and JaroWinklerSimilarity return exactly 0.0, as a
\* normal result, whenever either input sequence is empty.
C12_JaroOfEmptyIsZero ==
    (/\ op \in {"runewise.JaroSimilarity", "runewise.JaroWinklerSimilarity"}
     /\ (Len(a) = 0 \/ Len(b) = 0)) =>
        /\ res.status = "ok"
        /\ res.num = 0
        /\ res.den > 0

\* A JaroWinklerSimilarity call with only the first input empty.
C12_Witness ==
    /\ op = "runewise.JaroWinklerSimilarity"
    /\ Len(a) = 0 /\ Len(b) = 2
    /\ res.status = "ok" /\ res.num = 0

(***************************************************************************)
(* Reference for the Jaro formula on inputs without repeated units.        *)
(***************************************************************************)
Longer == IF Len(a) < Len(b) THEN b ELSE a

Shorter == IF Len(a) < Len(b) THEN a ELSE b

MatchWindow == IF (Len(Longer) \div 2) - 1 < 0 THEN 0 ELSE (Len(Longer) \div 2) - 1

Near(i, j) == i - j <= MatchWindow /\ j - i <= MatchWindow

\* Positions of the longer (shorter) sequence with an equal unit of the
\* other sequence inside the window.
MatchedLonger ==
    {i \in 1..Len(Longer) :
        \E j \in 1..Len(Shorter) : Longer[i] = Shorter[j] /\ Near(i, j)}

MatchedShorter ==
    {j \in 1..Len(Shorter) :
        \E i \in 1..Len(Longer) : Longer[i] = Shorter[j] /\ Near(i, j)}

RankIn(S, x) == Cardinality({y \in S : y < x})

\* Ranks at which the matched units of the two sequences, each in its own
\* order, differ.
RefTranspositions ==
    Cardinality({i \in MatchedLonger :
        \E j \in MatchedShorter :
            /\ RankIn(MatchedShorter, j) = RankIn(MatchedLonger, i)
            /\ Shorter[j] # Longer[i]})

RefMatches == Cardinality(MatchedLonger)

\* C13: for non-empty sequences without repeated units, JaroSimilarity is
\* (1/3) * (m/len(a) + m/len(b) + (m - floor(t/2))/m) when m > 0 and 0.0
\* when m = 0, m the units of the longer sequence with an equal unit of the
\* shorter one within the match window, t the ranks at which the matched
\* units of the two sequences differ.
C13_JaroFormulaOnDistinctUnits ==
    op = "runewise.JaroSimilarity" =>
        LET m == RefMatches
            t == RefTranspositions
        IN /\ res.status = "ok"
           /\ res.den > 0
           /\ m = 0 => res.num = 0
           /\ m > 0 =>
                res.num * (3 * Len(a) * Len(b) * m)
                  = res.den * (m * m * Len(b) + m * m * Len(a)
                               + (m - (t \div 2)) * Len(a) * Len(b))

\* A call in which all units match, two of them crosswise through a window
\* of 1, so that t = 2 and the result is below 1.
C13_Witness ==
    /\ op = "runewise.JaroSimilarity"
    /\ Len(a) = 4 /\ Len(b) = 4
    /\ RefMatches = 4 /\ RefTranspositions = 2
    /\ res.status = "ok" /\ res.num < res.den

(***************************************************************************)
(* Reference for the Jaro-Winkler boost.                                   *)
(***************************************************************************)
\* Length of the longest common leading run of units of a and b.
CommonPrefixLength ==
    LET lim == Min2(Len(a), Len(b))
        same == {k \in 0..lim : \A h \in 1..k : a[h] = b[h]}
    IN CHOOSE k \in same : \A h \in same : h <= k

IsWinklerCall ==
    op \in {"runewise.JaroWinklerSimilarity", "runewise.JaroWinklerSimilarityParametric"}

\* The arguments of the call: the suggested constants for JaroWinklerSimilarity.
CallArgs ==
    IF op = "runewise.JaroWinklerSimilarity"
    THEN [prefixScale |-> <<1, 10>>, maxPrefixLength |-> 4,
          boostThreshold |-> <<7, 10>>]
    ELSE res.args

\* The value j that JaroSimilarity returned is below boostThreshold, both
\* taken as float64 values.
JaroValueBelow(j, bt) ==
    flLess(IF j.matches = 0 THEN flFromRatio(0, 1)
           ELSE jaroFloat(j.matches, Len(a), Len(b), j.trans \div 2),
           flFromRatio(bt[1], bt[2]))

\* res is j when j < boostThreshold and j + p * prefixScale * (1 - j)
\* otherwise.
WinklerResultIs(j, p) ==
    LET ps == CallArgs.prefixScale
        bt == CallArgs.boostThreshold
    IN IF JaroValueBelow(j, bt)
       THEN res.num * j.den = j.num * res.den
       ELSE res.num * (j.den * ps[2])
              = res.den * (j.num * ps[2] + p * ps[1] * (j.den - j.num))

\* C14: every call of JaroWinklerSimilarityParametric returns a value: the
\* Jaro similarity j when j < boostThreshold, and otherwise (j =
\* boostThreshold included) j + min(commonPrefixLength, maxPrefixLength) *
\* prefixScale * (1 - j); JaroWinklerSimilarity is the parametric form with
\* 0.1, 4 and 0.7.
C14_WinklerFormulaAsStated ==
    IsWinklerCall =>
        /\ res.status = "ok"
        /\ WinklerResultIs(JaroSimilarity(a, b),
                           Min2(CommonPrefixLength, CallArgs.maxPrefixLength))

\* C15: whenever prefixScale >= 0, maxPrefixLength >= 0 and prefixScale *
\* maxPrefixLength <= 1, JaroWinklerSimilarityParametric returns a value in
\* [0, 1] that is never below JaroSimilarity of the same pair.
C15_WinklerInUnitRange ==
    (/\ op = "runewise.JaroWinklerSimilarityParametric"
     /\ res.args.prefixScale[1] >= 0
     /\ res.args.maxPrefixLength >= 0
     /\ res.args.prefixScale[1] * res.args.maxPrefixLength
          <= res.args.prefixScale[2]) =>
        /\ res.status = "ok"
        /\ 0 <= res.num
        /\ res.num <= res.den
        /\ res.num * JaroSimilarity(a, b).den
             >= JaroSimilarity(a, b).num * res.den

(***************************************************************************)
(* Reference for the bigram metrics.                                       *)
(***************************************************************************)
IsWhiteCall == op \in {"runewise.WhiteSimilarity", "bytewise.WhiteSimilarity"}

IsDiceCall == op \in {"runewise.DiceCoefficient", "bytewise.DiceCoefficient"}

\* The filtered bigram list the called package builds for s.
WhitePairs(s) ==
    IF op = "runewise.WhiteSimilarity" THEN upperWordLetterPairs(s)
    ELSE asciiUpperWordLetterPairs(s)

CountIn(list, g) == Cardinality({k \in 1..Len(list) : list[k] = g})

RECURSIVE SumOfMinCounts(_, _, _)
SumOfMinCounts(G, p, q) ==
    IF G = {} THEN 0
    ELSE LET g == CHOOSE x \in G : TRUE
         IN Min2(CountIn(p, g), CountIn(q, g)) + SumOfMinCounts(G \ {g}, p, q)

\* Size of the multiset intersection of two bigram lists.
MultisetIntersectionSize(p, q) ==
    SumOfMinCounts({p[k] : k \in 1..Len(p)}, p, q)

\* C16: WhiteSimilarity's greedy matching is one-to-one: a consumed slot of
\* b's list is never matched again, also for the bigram of two zero units;
\* intersection is the size of the multiset intersection of the two lists
\* and never exceeds min(lenA, lenB).
C16_WhiteMatchingOneToOne ==
    (IsWhiteCall /\ res.status = "ok") =>
        /\ \A i, j \in 1..Len(res.slots) : i # j => res.slots[i] # res.slots[j]
        /\ res.intersection = MultisetIntersectionSize(WhitePairs(a), WhitePairs(b))
        /\ res.intersection <= Min2(Len(WhitePairs(a)), Len(WhitePairs(b)))

\* C17: whenever WhiteSimilarity returns no error, 2 * intersection /
\* (lenA + lenB) lies in [0, 1] and the denominator is positive.
C17_WhiteInUnitRange ==
    (IsWhiteCall /\ res.status = "ok") =>
        /\ res.den > 0
        /\ 0 <= res.num
        /\ res.num <= res.den

\* Whitespace as the called package sees it.
SpaceUnit(u) ==
    IF op = "runewise.WhiteSimilarity" THEN IsSpace(u) ELSE asciiUpperOrSpace(u)[2]

\* Number of adjacent pairs of s in which neither unit is whitespace.
CleanPairCount(s) ==
    Cardinality({k \in 1..(Len(s) - 1) : ~SpaceUnit(s[k]) /\ ~SpaceUnit(s[k + 1])})

\* C18: WhiteSimilarity returns an error, with the ratio 0.0, exactly when
\* both inputs have no whitespace-free bigram; otherwise a ratio and no
\* error, also when the other input is empty.
C18_WhiteErrorIffNoBigrams ==
    IsWhiteCall =>
        /\ res.status \in {"ok", "error"}
        /\ res.status = "error" <=>
              (CleanPairCount(a) = 0 /\ CleanPairCount(b) = 0)
        /\ res.status = "error" => res.num = 0

\* A call that returns a ratio although b is empty and a holds a space.
C18_Witness ==
    /\ IsWhiteCall
    /\ res.status = "ok"
    /\ Len(b) = 0
    /\ \E k \in 1..Len(a) : a[k] = 32

\* The set of distinct adjacent pairs of s.
BigramSet(s) == {<<s[k], s[k + 1]>> : k \in 1..(Len(s) - 1)}

\* C19: whenever DiceCoefficient returns no error the result is
\* 2 * |SA \cap SB| / (|SA| + |SB|) over the sets of distinct bigrams; the
\* denominator is positive, the result is in [0, 1], and it is 1 when
\* SA = SB.
C19_DiceIsSetDice ==
    (IsDiceCall /\ res.status = "ok") =>
        LET SA == BigramSet(a)
            SB == BigramSet(b)
        IN /\ res.den > 0
           /\ res.num * (Cardinality(SA) + Cardinality(SB))
                = res.den * 2 * Cardinality(SA \cap SB)
           /\ 0 <= res.num
           /\ res.num <= res.den
           /\ SA = SB => res.num = res.den

\* A call in which b repeats a bigram that a also holds, and a holds another.
C19_Witness ==
    /\ IsDiceCall
    /\ res.status = "ok"
    /\ Len(b) = 3 /\ b[1] = b[2] /\ b[2] = b[3]
    /\ res.num > 0 /\ res.num < res.den

\* C20: DiceCoefficient returns an error, with the ratio 0.0, exactly when
\* both inputs have fewer than 2 units.
C20_DiceErrorIffBothShort ==
    IsDiceCall =>
        /\ res.status \in {"ok", "error"}
        /\ res.status = "error" <=> (Len(a) < 2 /\ Len(b) < 2)
        /\ res.status = "error" => res.num = 0

\* A call that returns a ratio although b has a single unit.
C20_Witness ==
    /\ IsDiceCall
    /\ res.status = "ok"
    /\ Len(a) >= 2 /\ Len(b) = 1

(***************************************************************************)
(* Reference for the Hamming and Lee distances.                            *)
(***************************************************************************)
IsHammingCall ==
    op \in {"runewise.HammingDistance", "bytewise.HammingDistance",
            "stralgo.HammingDistance"}

IsLeeCall == op = "stralgo.LeeDistance"

\* The number of indices at which s and t, of equal length, differ.
DifferingIndices(s, t) == Cardinality({k \in 1..Len(s) : s[k] # t[k]})

\* The Hamming distance of the called package on the pair (x, y).
HammingOf(x, y) ==
    IF op = "runewise.HammingDistance" THEN RunewiseHammingDistance(x, y)
    ELSE IF op = "bytewise.HammingDistance" THEN BytewiseHammingDistance(x, y)
    ELSE StralgoHammingDistance(x, y)

\* C21: for inputs of equal length HammingDistance returns no error and the
\* number of indices i with a[i] # b[i]; the count is in 0..len(a), is 0
\* for a = b, and is the same for (b, a).
C21_HammingCountsDifferingIndices ==
    (IsHammingCall /\ Len(a) = Len(b)) =>
        /\ res.status = "ok"
        /\ res.val = DifferingIndices(a, b)
        /\ 0 <= res.val /\ res.val <= Len(a)
        /\ a = b => res.val = 0
        /\ HammingOf(b, a) = res

\* A call on two sequences of equal length that differ at one index of two.
C21_Witness ==
    /\ IsHammingCall
    /\ Len(a) = 2 /\ Len(b) = 2
    /\ a[1] = b[1] /\ a[2] # b[2]
    /\ res.val = 1

\* C22: HammingDistance returns an error and the count 0 whenever the unit
\* counts differ, and no error whenever they are equal.
C22_HammingErrorIffLengthsDiffer ==
    IsHammingCall =>
        /\ res.status \in {"ok", "error"}
        /\ res.status = "error" <=> Len(a) # Len(b)
        /\ res.status = "error" => res.val = 0

\* A call on inputs of different lengths whose common prefix differs.
C22_Witness ==
    /\ IsHammingCall
    /\ res.status = "error"
    /\ Len(a) = 2 /\ Len(b) = 1
    /\ a[1] # b[1]

\* C23: for q = 2 and inputs of equal length LeeDistance is the number of
\* indices at which a and b differ.
C23_LeeOfTwoIsHamming ==
    (IsLeeCall /\ res.q = 2 /\ Len(a) = Len(b)) =>
        /\ res.status = "ok"
        /\ res.val = DifferingIndices(a, b)

\* C24: LeeDistance returns an error and the count 0 whenever q < 2, whatever
\* the lengths, and whenever q >= 2 and the lengths differ; it returns no
\* error when q >= 2 and the lengths are equal.
C24_LeeErrorCases ==
    IsLeeCall =>
        /\ res.status \in {"ok", "error"}
        /\ res.status = "error" <=> (res.q < 2 \/ Len(a) # Len(b))
        /\ res.status = "error" => res.val = 0

\* A call with q = 1 on inputs of equal length that differ.
C24_Witness ==
    /\ IsLeeCall
    /\ res.q = 1
    /\ res.status = "error"
    /\ Len(a) = 2 /\ Len(b) = 2 /\ a # b

\* C30: for q >= 2 and inputs of equal length LeeDistance returns a
\* non-negative count in which every index contributes between 0 and
\* floor(q / 2), also when the byte difference at an index is above q.
C30_LeeTermsInRange ==
    (IsLeeCall /\ res.q >= 2 /\ Len(a) = Len(b)) =>
        /\ res.status = "ok"
        /\ res.val >= 0
        /\ \A k \in 1..Len(res.terms) :
              0 <= res.terms[k] /\ res.terms[k] <= res.q \div 2

\* Upper-casing of a unit: an ASCII letter goes to its capital in both
\* packages; the rune 233 (e with acute) goes to 201 (E with acute) in the
\* runewise package, and the byte 233 is left alone by the bytewise one.
UpperUnit(u) ==
    IF u \in 97..122 THEN u - 32
    ELSE IF u = 233 /\ op = "runewise.WhiteSimilarity" THEN 201
    ELSE u

\* The in-order list of the adjacent pairs of s from index k on in which
\* neither unit is whitespace, each unit upper-cased.
RECURSIVE CleanPairsFrom(_, _)
CleanPairsFrom(s, k) ==
    IF k >= Len(s) THEN << >>
    ELSE (IF ~SpaceUnit(s[k]) /\ ~SpaceUnit(s[k + 1])
          THEN << <<UpperUnit(s[k]), UpperUnit(s[k + 1])>> >>
          ELSE << >>)
         \o CleanPairsFrom(s, k + 1)

\* C28: the bigram list built for WhiteSimilarity is exactly the in-order
\* list of all adjacent pairs in which neither unit is whitespace, each
\* unit upper-cased, with multiplicity kept; its length is the count of
\* such pairs.
C28_WhitePairsAreCleanPairs ==
    IsWhiteCall =>
        /\ WhitePairs(a) = CleanPairsFrom(a, 1)
        /\ WhitePairs(b) = CleanPairsFrom(b, 1)
        /\ Len(WhitePairs(a)) = CleanPairCount(a)
        /\ Len(WhitePairs(b)) = CleanPairCount(b)

\* A runewise call in which a starts with a space followed by an ASCII and
\* a non-ASCII lower-case letter, and b repeats a bigram.
C28_Witness ==
    /\ op = "runewise.WhiteSimilarity"
    /\ a = <<32, 97, 233>>
    /\ b = <<97, 97, 97>>
    /\ WhitePairs(a) = << <<65, 201>> >>
    /\ Len(WhitePairs(b)) = 2

\* C29: JaroSimilarity is symmetric: JaroSimilarity(a, b) is
\* JaroSimilarity(b, a) for every pair of sequences, also for pairs of
\* equal length, which the code scans from a's side only.
C29_JaroSymmetric ==
    op = "runewise.JaroSimilarity" =>
        LET other == JaroSimilarity(b, a)
        IN /\ res.status = other.status
           /\ res.num * other.den = other.num * res.den

\* C26: JaroSimilarity is deterministic: whatever order the map of matched
\* b positions is enumerated in before it is sorted, the call returns the
\* value of the call that enumerates it in ascending order, so any two
\* calls with the same a and b return the same value.
C26_JaroIndependentOfMapOrder ==
    op = "runewise.JaroSimilarity (map order drawn)" =>
        LET canonical == JaroSimilarity(a, b)
        IN /\ res.status = canonical.status
           /\ res.matches = canonical.matches
           /\ res.trans = canonical.trans
           /\ res.num = canonical.num
           /\ res.den = canonical.den

\* A call that returns a value with a half-transposition counted although
\* the map was enumerated out of ascending order.
C26_Witness ==
    /\ op = "runewise.JaroSimilarity (map order drawn)"
    /\ res.status = "ok"
    /\ Len(res.order) >= 3
    /\ res.order[1] > res.order[2]
    /\ res.order[2] < res.order[3]
    /\ res.trans > 0
    /\ res.num < res.den

(***************************************************************************)
(* Reference for the rows of Damerau-Levenshtein: the matrix of the code's *)
(* recurrence with every row held in storage of its own, so that no row    *)
(* is recycled.  Row 0 is 0..len(a); the row before it is all zero, as the *)
(* tranRow the code starts with.                                           *)
(***************************************************************************)
\* The arguments after the swap: DLShort is not longer than DLLong.
DLShort == IF Len(a) > Len(b) THEN b ELSE a

DLLong == IF Len(a) > Len(b) THEN a ELSE b

\* The cells 1..len(s) of row i, computed by the called package's cell rule
\* from the rows prev and tran into a fresh row.
FreshRow(s, t, i, prev, tran) ==
    LET st0 == [tranRow |-> tran, prevRow |-> prev,
                currRow |-> [h \in 0..Len(s) |-> IF h = 0 THEN i ELSE -1],
                prevA |-> 0,
                prevB |-> IF i >= 2 THEN At(t, i - 2) ELSE 0,
                panic |-> FALSE, reads |-> {}, writes |-> {}, snaps |-> << >>]
    IN IF op = "runewise.DamerauLevenshteinDistance"
       THEN runewiseDLInner(s, t, i, 1, Len(s), st0).currRow
       ELSE bytewiseDLInner(s, t, i, 1, Len(s), st0).currRow

\* The rows 0..i of the matrix; row k is at position k + 1.
RECURSIVE MatrixRows(_, _, _)
MatrixRows(s, t, i) ==
    IF i = 0 THEN << [h \in 0..Len(s) |-> h] >>
    ELSE LET rows == MatrixRows(s, t, i - 1)
         IN Append(rows,
                FreshRow(s, t, i, rows[i],
                         IF i >= 2 THEN rows[i - 1] ELSE [h \in 0..Len(s) |-> 0]))

\* C27: in DamerauLevenshteinDistance, after the swap, every outer iteration
\* i has start = 1 and end = len(a), and all of currRow[0..len(a)] is
\* written in it; at the start of iteration i prevRow holds row i-1 of the
\* matrix and, for i >= 2, tranRow holds row i-2, so no stale entry of a
\* recycled row is read.
C27_DamerauRowsAreMatrixRows ==
    IsDamerauCall =>
        /\ LET rows == MatrixRows(DLShort, DLLong, Len(res.snaps))
           IN \A k \in 1..Len(res.snaps) :
                 /\ res.snaps[k].i = k
                 /\ res.snaps[k].start = 1
                 /\ res.snaps[k].end = Len(DLShort)
                 /\ res.snaps[k].prevRow = rows[k]
                 /\ k >= 2 => res.snaps[k].tranRow = rows[k - 1]
        /\ res.writes \subseteq (1..Len(DLLong)) \X (0..Len(DLShort))
        /\ (res.status = "ok" /\ Len(a) > 0 /\ Len(b) > 0) =>
              /\ Len(res.snaps) = Len(DLLong)
              /\ res.writes = (1..Len(DLLong)) \X (0..Len(DLShort))

\* A call that swaps its arguments, runs three outer iterations or more and
\* reads tranRow for a transposition.
C27_Witness ==
    /\ IsDamerauCall
    /\ res.status = "ok"
    /\ Len(a) > Len(b)
    /\ Len(res.snaps) >= 3
    /\ res.reads # {}
    /\ res.val < Len(a)

\* C25: no runewise metric changes its input sequences: in every step the
\* caller's slices a and b hold, after the call, the units they held before
\* it, in the same order.
C25_InputsUnchanged == [][a' = a /\ b' = b]_vars

\* A WhiteSimilarity call on inputs with a lower-case letter that
\* overwrote a consumed slot of bPairs, an array the call made itself.
C25_Witness ==
    /\ op = "runewise.WhiteSimilarity"
    /\ res.status = "ok"
    /\ Len(res.slots) >= 1
    /\ res.bPairs.obj > 2
    /\ load(res.heap, res.bPairs, res.slots[1]) = <<0, 0>>
    /\ \E k \in 1..Len(b) : b[k] = 97

====
